---- MODULE Spec2Model ----
(***************************************************************************)
(* A model of the sampling, attribution and output-encoding core of sonar. *)
(*                                                                         *)
(* Text is modelled as a sequence of one-character strings, so that the    *)
(* parsers and formatters of the source are computed character by          *)
(* character (find, rfind, split, parse, quote) instead of being assumed.  *)
(***************************************************************************)
EXTENDS Integers, Sequences, FiniteSets, TLC

(***************************************************************************)
(* Bounds of the model.                                                    *)
(***************************************************************************)
\* Longest enumeration list returned by read_proc_pids.
MaxEnum == 2

\* Most "PID ..." / device-list line pairs in a --showpidgpus block.
MaxPairs == 2

\* Longest array given to encode_cpu_secs_base45el.
MaxCpus == 4

\* Most fields of the root Object, most elements of the root Array.
MaxWidth == 2

\* Most Object::push and Object::prepend calls on one Object.
MaxCalls == 3

\* Blocks of a /proc/cpuinfo file.
MaxBlocks == 2

\* Lines of a /proc/<pid>/cgroup file.
MaxCgroupLines == 2

\* Lines of a /proc/stat or /proc/meminfo file.
MaxStatLines == 3

\* Pids that read_proc_pids returns to the run that follows /proc/stat.
MaxPidReads == 2

(***************************************************************************)
(* State.  Each component has its own variables; a specification of one    *)
(* component leaves the variables of the others at their initial values.   *)
(***************************************************************************)
VARIABLES
    \* procfs.rs, get_process_information
    sys,        \* SystemAPI answers: clock, CLK_TCK, page size, memtotal, users
    fsys,       \* per-pid /proc content, by pid
    proc_pids,  \* what read_proc_pids returns: a list of (pid, uid)
    gone,       \* pids whose process has exited since the enumeration
    pc,         \* position of get_process_information
    ix,         \* index of the enumeration entry being sampled
    cur,        \* locals of the loop body carried across the file reads
    result,     \* HashMap<usize, Process>
    ppids,      \* HashSet<usize>
    user_ht,    \* UserTable.ht
    outcome,    \* "running", "Ok", "Err" or "panic"
    failed,     \* history: <<entry, file>> for each read that failed
    \* amd.rs, get_amd_utilization
    amd_raw_text,    \* stdout of rocm-smi --showpidgpus
    amd_per_device,  \* the Ok value of get_raw_per_device_info
    amd_per_pid,     \* the Ok value of get_raw_per_pid_info
    amd_out,         \* the vector extract_amd_information returns
    amd_pc,          \* "start", "extract", "Ok", "Err" or "panic"
    \* output.rs, encode_cpu_secs_base45el
    cpu_secs,        \* the array to encode
    encoded,         \* the String returned
    b45_pc,          \* "start", "Ok" or "panic"
    \* output.rs, write_json and write_csv
    out_value,       \* the Value given to the writer
    out_text,        \* what the writer has received
    out_pc,          \* "start", "json", "csv", "json_panic" or "csv_panic"
    out_calls,       \* history: the push and prepend calls made on out_value
    \* amd.rs, the rocm-smi invocations
    cmd_out,         \* what safe_command returns, by invocation
    cmd_ran,         \* history: the invocations made, in order
    amd_res,         \* what each operation returned, by operation
    \* procfs.rs, get_cpu_info
    cpuinfo,         \* what read_to_string("cpuinfo") returns
    cpu_info,        \* the Result<CpuInfo, String> returned
    cpu_pc,          \* "start", "x86_64" or "aarch64": the parser that ran
    \* slurm.rs, SlurmJobManager
    cgroup,          \* /proc/<pid>/cgroup: whether it exists, and its text
    slurm_cmd,       \* how the extraction command ends: "Ok" or a CmdError
    job_id,          \* what job_id_from_pid returned, -1 before the call
    need_tree,       \* what need_process_tree returned, "none" before the call
    \* time.rs, parse_date_and_time_no_tzo
    date_text,       \* the string given to the parser
    date_res,        \* the Result<libc::tm, String> returned, "none" before the call
    \* procfs.rs, get_memory and the system data of get_process_information
    clk_tck,         \* what get_clock_ticks_per_sec returns
    stat_file,       \* /proc/stat: whether it can be read, and its text
    sys_data,        \* boot time, cpu_total_secs and per_cpu_secs, once parsed
    fs_reads,        \* history: the accesses get_process_information made
    gpi_pc,          \* where get_process_information is, or how it ended
    pids_left,       \* the enumerated pids that are still to be read
    meminfo,         \* /proc/meminfo: whether it can be read, and its text
    memory           \* what get_memory returned, "none" before the call

procVars == <<sys, fsys, proc_pids, gone, pc, ix, cur, result, ppids,
              user_ht, outcome, failed>>

amdVars == <<amd_raw_text, amd_per_device, amd_per_pid, amd_out, amd_pc>>

b45Vars == <<cpu_secs, encoded, b45_pc>>

outVars == <<out_value, out_text, out_pc, out_calls>>

cmdVars == <<cmd_out, cmd_ran, amd_res>>

cpuVars == <<cpuinfo, cpu_info, cpu_pc>>

slurmVars == <<cgroup, slurm_cmd, job_id, need_tree>>

timeVars == <<date_text, date_res>>

statVars == <<clk_tck, stat_file, sys_data, fs_reads, gpi_pc, pids_left, meminfo, memory>>

vars == <<procVars, amdVars, b45Vars, outVars, cmdVars, cpuVars, slurmVars, timeVars, statVars>>

\* The variables a specification of one component leaves alone.
notProc == <<amdVars, b45Vars, outVars, cmdVars, cpuVars, slurmVars, timeVars, statVars>>

notAmd == <<procVars, b45Vars, outVars, cmdVars, cpuVars, slurmVars, timeVars, statVars>>

notB45 == <<procVars, amdVars, outVars, cmdVars, cpuVars, slurmVars, timeVars, statVars>>

notOut == <<procVars, amdVars, b45Vars, cmdVars, cpuVars, slurmVars, timeVars, statVars>>

notCmd == <<procVars, b45Vars, outVars, cpuVars, slurmVars, timeVars, statVars>>

notCpu == <<procVars, amdVars, b45Vars, outVars, cmdVars, slurmVars, timeVars, statVars>>

notSlurm == <<procVars, amdVars, b45Vars, outVars, cmdVars, cpuVars, timeVars, statVars>>

notTime == <<procVars, amdVars, b45Vars, outVars, cmdVars, cpuVars, slurmVars, statVars>>

notStat == <<procVars, amdVars, b45Vars, outVars, cmdVars, cpuVars, slurmVars, timeVars>>

(***************************************************************************)
(* Text primitives (Rust str operations used by the source).               *)
(***************************************************************************)
DigitChars == <<"0", "1", "2", "3", "4", "5", "6", "7", "8", "9">>

Whitespace == {" ", "\t", "\n"}

IsDigit(c) == \E i \in 1..10 : DigitChars[i] = c

DigitVal(c) == (CHOOSE i \in 1..10 : DigitChars[i] = c) - 1

\* format!("{n}") of an unsigned integer.
RECURSIVE FmtU(_)
FmtU(n) == IF n < 10 THEN <<DigitChars[n + 1]>>
           ELSE FmtU(n \div 10) \o <<DigitChars[(n % 10) + 1]>>

\* format!("{i}") of a signed integer.
FmtI(i) == IF i < 0 THEN <<"-">> \o FmtU(0 - i) ELSE FmtU(i)

RECURSIVE DigitsValue(_, _)
DigitsValue(s, acc) ==
    IF s = <<>> THEN acc ELSE DigitsValue(Tail(s), acc * 10 + DigitVal(Head(s)))

\* str::parse::<usize>: an optional '+' followed by one or more decimal
\* digits.  -1 stands for Err.
ParseUsize(tok) ==
    LET body == IF tok # <<>> /\ Head(tok) = "+" THEN Tail(tok) ELSE tok
    IN  IF body # <<>> /\ \A i \in 1..Len(body) : IsDigit(body[i])
        THEN DigitsValue(body, 0)
        ELSE -1

\* str::find(c): index of the first occurrence, 0 for None.
Find(s, c) ==
    IF \E i \in 1..Len(s) : s[i] = c
    THEN CHOOSE i \in 1..Len(s) : s[i] = c /\ \A j \in 1..(i - 1) : s[j] # c
    ELSE 0

\* str::rfind(c): index of the last occurrence, 0 for None.
RFind(s, c) ==
    IF \E i \in 1..Len(s) : s[i] = c
    THEN CHOOSE i \in 1..Len(s) : s[i] = c /\ \A j \in (i + 1)..Len(s) : s[j] # c
    ELSE 0

\* str::split_ascii_whitespace, collected: the maximal runs of characters
\* that are not whitespace, from position i on.
RECURSIVE SplitWs(_, _)
SplitWs(s, i) ==
    IF \A x \in i..Len(s) : s[x] \in Whitespace THEN <<>>
    ELSE LET a == CHOOSE j \in i..Len(s) :
                      s[j] \notin Whitespace /\ \A x \in i..(j - 1) : s[x] \in Whitespace
             b == CHOOSE j \in a..Len(s) :
                      /\ \A x \in a..j : s[x] \notin Whitespace
                      /\ (j = Len(s) \/ s[j + 1] \in Whitespace)
         IN  <<SubSeq(s, a, b)>> \o SplitWs(s, b + 1)

SplitAsciiWhitespace(s) == SplitWs(s, 1)

\* The positions of c within lo..hi of s.
SepsIn(s, c, lo, hi) == {p \in lo..hi : s[p] = c}

\* The separator nearest the middle: the last one at or before mid, or else
\* the first one after it.
CutAt(seps, mid) ==
    IF \E p \in seps : p <= mid
    THEN CHOOSE x \in seps : x <= mid /\ \A y \in seps : y <= mid => y <= x
    ELSE CHOOSE x \in seps : \A y \in seps : x <= y

\* str::split(c), collected: the pieces between the occurrences of c within
\* positions lo..hi, always at least one piece.  The text is cut at the
\* occurrence nearest its middle, so that the depth of the recursion is
\* logarithmic in the number of pieces.
RECURSIVE SplitOn(_, _, _, _)
SplitAt(s, c, lo, hi, cut) == SplitOn(s, c, lo, cut - 1) \o SplitOn(s, c, cut + 1, hi)

SplitOn(s, c, lo, hi) ==
    IF SepsIn(s, c, lo, hi) = {} THEN <<SubSeq(s, lo, hi)>>
    ELSE SplitAt(s, c, lo, hi, CutAt(SepsIn(s, c, lo, hi), (lo + hi) \div 2))

SplitChar(s, c) == SplitOn(s, c, 1, Len(s))

\* str::trim.
RECURSIVE TrimStart(_)
TrimStart(s) ==
    IF s # <<>> /\ Head(s) \in Whitespace THEN TrimStart(Tail(s)) ELSE s

RECURSIVE TrimEnd(_)
TrimEnd(s) ==
    IF s # <<>> /\ s[Len(s)] \in Whitespace
    THEN TrimEnd(SubSeq(s, 1, Len(s) - 1))
    ELSE s

Trim(s) == TrimEnd(TrimStart(s))

\* str::starts_with.
StartsWith(s, p) == Len(s) >= Len(p) /\ SubSeq(s, 1, Len(p)) = p

\* Concatenation of pieces with a separator between them.
RECURSIVE JoinWith(_, _)
JoinWith(pieces, sep) ==
    IF pieces = <<>> THEN <<>>
    ELSE IF Len(pieces) = 1 THEN pieces[1]
    ELSE pieces[1] \o sep \o JoinWith(Tail(pieces), sep)


(***************************************************************************)
(* procfs.rs: the /proc based process sampler.                             *)
(***************************************************************************)
Pids == {1, 2}

\* The shapes of per-pid files the model draws its inputs from.
GoodKinds == {"run", "zombie", "tricky", "kthread"}
DeadKinds == {"dead"}
BadKinds == {"stat_short", "stat_noparen", "stat_badnum", "statm_short",
             "statm_bad", "status_bad"}
PanicKinds == {"stat_empty"}
Kinds == GoodKinds \cup DeadKinds \cup BadKinds \cup PanicKinds

Absent == [kind |-> "absent", ppid |-> 0]

Profiles == [kind : Kinds, ppid : {0} \cup Pids]

W(tokens) == JoinWith(tokens, <<" ">>)

CommText(kind) ==
    IF kind = "tricky" THEN <<"a", ")", " ", "X", " ", "(", "b">>
    ELSE <<"s", "h">>

\* The kernel's state letter, the first token after the last ')'.
StateChar(kind) ==
    CASE kind = "zombie" -> "Z"
      [] kind = "dead" -> "X"
      [] OTHER -> "R"

\* The counters the files of a live process carry: utime, stime and
\* starttime of stat, resident and data pages of statm.  A "late" process
\* started 2 s after boot, a "future" one 2.5 s after boot.
Counters(kind) ==
    [utime |-> 513, stime |-> 157,
     starttime |-> CASE kind = "late" -> 200 [] kind = "future" -> 250 [] OTHER -> 164,
     rss_pages |-> 185, data_pages |-> 316]

\* Tokens of /proc/<pid>/stat after the comm field (zero-based 0..20).
StatRest(f) ==
    LET neg == <<"-", "1">>
        z == <<"0">>
        live == << <<StateChar(f.kind)>>, FmtU(f.ppid), FmtU(7), FmtU(7), z, neg,
                   FmtU(4194560), FmtU(19), FmtU(31), FmtU(18), FmtU(5),
                   IF f.kind = "stat_badnum" THEN neg ELSE FmtU(Counters(f.kind).utime),
                   FmtU(Counters(f.kind).stime), FmtU(53), FmtU(29), FmtU(20), z,
                   FmtU(187), z, FmtU(Counters(f.kind).starttime), FmtU(5144) >>
        dead == << <<"X">>, FmtU(f.ppid), neg, neg, z, neg, FmtU(4243524),
                   z, z, z, z, z, z, z, z, FmtU(20), z, z, z, FmtU(10643), z >>
    IN  CASE f.kind = "dead" -> dead
          [] f.kind = "stat_short" -> SubSeq(live, 1, 12)
          [] f.kind = "stat_empty" -> <<>>
          [] OTHER -> live

StatText(p, f) ==
    IF f.kind = "stat_noparen"
    THEN FmtU(p) \o <<" ">> \o CommText(f.kind) \o <<" ">> \o W(StatRest(f))
    ELSE FmtU(p) \o <<" ", "(">> \o CommText(f.kind) \o <<")", " ">>
         \o W(StatRest(f)) \o <<"\n">>

StatmText(f) ==
    CASE f.kind = "statm_short" ->
            W(<<FmtU(1255), FmtU(Counters(f.kind).rss_pages), FmtU(54)>>)
      [] f.kind = "statm_bad" ->
            W(<<FmtU(1255), <<"x">>, FmtU(54), FmtU(200), <<"0">>, FmtU(316), <<"0">>>>)
      [] OTHER ->
            W(<<FmtU(1255), FmtU(Counters(f.kind).rss_pages), FmtU(54), FmtU(200),
                <<"0">>, FmtU(Counters(f.kind).data_pages), <<"0">>>>)
            \o <<"\n">>

RssAnonTag == <<"R", "s", "s", "A", "n", "o", "n", ":">>

StatusText(f) ==
    LET name == <<"N", "a", "m", "e", ":", "\t", "s", "h", "\n">>
    IN  CASE f.kind = "kthread" -> name
          [] f.kind = "status_bad" -> name \o RssAnonTag \o <<" ">> \o FmtU(123) \o <<"\n">>
          [] OTHER -> name \o RssAnonTag \o <<"\t", " ">> \o FmtU(123)
                      \o <<" ", "k", "B", "\n">>

\* ProcfsAPI::read_to_string of "<pid>/<name>": <<FALSE, <<>> >> is Err.
ReadToString(p, name) ==
    IF p \in gone \/ fsys[p].kind = "absent" THEN <<FALSE, <<>> >>
    ELSE <<TRUE, CASE name = "stat" -> StatText(p, fsys[p])
                   [] name = "statm" -> StatmText(fsys[p])
                   [] OTHER -> StatusText(fsys[p])>>

\* Mutant: a field that is missing or not a usize reads as 0
\* (unwrap_or_default) instead of being an error.
parse_usize_field_default(fields, i) ==
    IF i >= Len(fields) THEN 0
    ELSE IF ParseUsize(fields[i + 1]) = -1 THEN 0 ELSE ParseUsize(fields[i + 1])

\* parse_usize_field: -1 stands for Err (index out of range, or not a usize).
parse_usize_field(fields, i) ==
    IF i >= Len(fields) THEN -1 ELSE ParseUsize(fields[i + 1])

\* f64::round of a / b for a >= 0, b > 0 (half away from zero).
RoundDiv(a, b) == (2 * a + b) \div (2 * b)

Min(a, b) == IF a < b THEN a ELSE b


(***************************************************************************)
(* get_process_information, the loop body.  Percentages are carried in     *)
(* tenths of a percent (cpu_pct = 123 means 12.3), computed in exact       *)
(* arithmetic.                                                             *)
(***************************************************************************)
NoStat == [tag |-> "err", comm |-> <<>>, ppid |-> 0, pgrp |-> 0, utime |-> 0,
           stime |-> 0, bsdtime |-> 0, realtime |-> 1]

\* Mutant: the state is looked for one field too far (the 1-based numbering
\* of the proc manual).
IsDead_off_by_one(fields) == Len(fields) > 1 /\ fields[2] = <<"X">>

\* fields[0] == "X"
IsDead(fields) == fields[1] = <<"X">>

\* Mutant: the zombie test looks one field too far.
IsZombie_off_by_one(fields) == Len(fields) > 1 /\ fields[2] = <<"Z">>

\* fields[0] == "Z"
IsZombie(fields) == fields[1] = <<"Z">>

\* The comm field: the text between the first '(' and the last ')'.
CommEnd(line) == RFind(line, ")")

CommStart(line) == Find(line, "(")

\* The part of the loop body that works on the text of /proc/<pid>/stat.
\* tag: "err" (return Err), "panic", "dead" (continue) or "ok".
ParseStat(line) ==
    LET commstart == CommStart(line)
        commend == CommEnd(line)
    IN
    IF commstart = 0 \/ commend = 0 THEN NoStat
    ELSE IF commstart > commend THEN [NoStat EXCEPT !.tag = "panic"]
    ELSE
    LET comm == SubSeq(line, commstart + 1, commend - 1)
        fields == SplitAsciiWhitespace(Trim(SubSeq(line, commend + 1, Len(line))))
    IN
    IF fields = <<>> THEN [NoStat EXCEPT !.tag = "panic"]
    ELSE IF IsDead(fields) THEN [NoStat EXCEPT !.tag = "dead"]
    ELSE
    LET ppid == parse_usize_field(fields, 1)
        pgrp == parse_usize_field(fields, 2)
        utime == parse_usize_field(fields, 11)
        stime == parse_usize_field(fields, 12)
        cutime == parse_usize_field(fields, 13)
        cstime == parse_usize_field(fields, 14)
        start == parse_usize_field(fields, 19)
        now_ticks == sys.now * sys.ticks_per_sec
        boot_ticks == sys.boot_time * sys.ticks_per_sec
        rt == now_ticks - (boot_ticks + start)
    IN
    IF \E v \in {ppid, pgrp, utime, stime, cutime, cstime, start} : v = -1
    THEN NoStat
    ELSE [tag |-> "ok",
          comm |-> IF IsZombie(fields)
                   THEN comm \o <<" ", "<", "d", "e", "f", "u", "n", "c", "t", ">">>
                   ELSE comm,
          ppid |-> ppid, pgrp |-> pgrp, utime |-> utime, stime |-> stime,
          bsdtime |-> utime + stime + cutime + cstime,
          realtime |-> IF rt < 1 THEN 1 ELSE rt]

\* The part of the loop body that works on the text of /proc/<pid>/statm.
ParseStatm(s) ==
    LET fields == SplitAsciiWhitespace(s)
        rss == parse_usize_field(fields, 1)
        size == parse_usize_field(fields, 5)
    IN  IF rss = -1 \/ size = -1 THEN [tag |-> "err", rss_kib |-> 0, size_kib |-> 0]
        ELSE [tag |-> "ok", rss_kib |-> rss * sys.kib_per_page,
              size_kib |-> size * sys.kib_per_page]

\* The scan of /proc/<pid>/status for the first RssAnon: line.
RECURSIVE ScanStatus(_)
ScanStatus(lines) ==
    IF lines = <<>> THEN [tag |-> "ok", rssanon_kib |-> 0]
    ELSE IF StartsWith(Head(lines), RssAnonTag)
    THEN LET fields == SplitAsciiWhitespace(Head(lines))
         IN  IF Len(fields) # 3 \/ fields[3] # <<"k", "B">>
             THEN [tag |-> "err", rssanon_kib |-> 0]
             ELSE IF parse_usize_field(fields, 1) = -1
             THEN [tag |-> "err", rssanon_kib |-> 0]
             ELSE [tag |-> "ok", rssanon_kib |-> parse_usize_field(fields, 1)]
    ELSE ScanStatus(Tail(lines))

ParseStatus(s) == ScanStatus(SplitChar(s, "\n"))

UserPrefix == <<"_", "u", "s", "e", "r", "_">>

\* A version that also keeps the name it made up for an unknown uid.
Lookup_keeping_failures(ht, uid) ==
    IF uid \in DOMAIN ht THEN <<ht[uid], ht>>
    ELSE IF uid \in DOMAIN sys.users
    THEN <<sys.users[uid], (uid :> sys.users[uid]) @@ ht>>
    ELSE <<UserPrefix \o FmtU(uid), (uid :> (UserPrefix \o FmtU(uid))) @@ ht>>

\* UserTable::lookup: the name and the table after the call.
Lookup(ht, uid) ==
    IF uid \in DOMAIN ht THEN <<ht[uid], ht>>
    ELSE IF uid \in DOMAIN sys.users
    THEN <<sys.users[uid], (uid :> sys.users[uid]) @@ ht>>
    ELSE <<UserPrefix \o FmtU(uid), ht>>

\* A pcpu capped at 100.0.
pcpu_formatted_capped(utime_ticks, stime_ticks, realtime_ticks) ==
    Min(RoundDiv((utime_ticks + stime_ticks) * 1000, realtime_ticks), 1000)

\* pcpu_formatted, in tenths of a percent.
pcpu_formatted(utime_ticks, stime_ticks, realtime_ticks) ==
    RoundDiv((utime_ticks + stime_ticks) * 1000, realtime_ticks)

\* A pmem without the ceiling.
pmem_uncapped(rss_kib, memtotal_kib) == RoundDiv(rss_kib * 1000, memtotal_kib)

\* pmem, in tenths of a percent.
pmem(rss_kib, memtotal_kib) == Min(RoundDiv(rss_kib * 1000, memtotal_kib), 999)

\* The Process record built once the three files have been read.
MakeProcess(pid, uid, user, st, sm, rssanon) ==
    [pid |-> pid, ppid |-> st.ppid, pgrp |-> st.pgrp, uid |-> uid, user |-> user,
     cpu_pct |-> pcpu_formatted(st.utime, st.stime, st.realtime),
     mem_pct |-> pmem(sm.rss_kib, sys.memtotal_kib),
     cputime_sec |-> RoundDiv(st.bsdtime, sys.ticks_per_sec),
     mem_size_kib |-> sm.size_kib, rssanon_kib |-> rssanon,
     command |-> st.comm, has_children |-> FALSE]

\* Mutant: the ppid of every enumerated pid counts, also of those dropped.
MarkChildren_all_enumerated(res, pp) ==
    [p \in DOMAIN res |->
        [res[p] EXCEPT !.has_children =
            \E i \in 1..Len(proc_pids) : fsys[proc_pids[i].pid].ppid = p]]

\* The pass that marks the processes that have children.
MarkChildren(res, pp) ==
    [p \in DOMAIN res |-> [res[p] EXCEPT !.has_children = (p \in pp)]]

\* Mutant: the test of was_found is inverted.
DropForStatus_inverted(rssanon_kib, was_found) == rssanon_kib = 0 /\ was_found

\* if rssanon_kib == 0 { if !was_found { continue; } }
DropForStatus(rssanon_kib, was_found) == rssanon_kib = 0 /\ ~was_found

\* result.insert(pid, process)
Insert(res, pid, proc) == (pid :> proc) @@ res


(***************************************************************************)
(* get_process_information as a state machine.  The sampler is suspended   *)
(* at each file read; the processes it enumerated may exit meanwhile.      *)
(***************************************************************************)
NoCur == [st |-> NoStat, sm |-> [tag |-> "err", rss_kib |-> 0, size_kib |-> 0]]

EmptyMap == <<>>

\* The lists read_proc_pids can return, the owner of /proc/<pid> with each pid.
RECURSIVE EnumLists(_)
EnumLists(n) ==
    IF n = 0 THEN {<<>>}
    ELSE EnumLists(n - 1) \cup
         {Append(l, [pid |-> p, uid |-> 1000 + p]) :
             l \in {x \in EnumLists(n - 1) : Len(x) = n - 1}, p \in Pids}

Enumerated == {proc_pids[i].pid : i \in 1..Len(proc_pids)}

\* The sampler's variables while another component is being specified.
ProcIdle ==
    /\ sys = [now |-> 0, boot_time |-> 0, ticks_per_sec |-> 0, kib_per_page |-> 0,
              memtotal_kib |-> 0, users |-> EmptyMap]
    /\ proc_pids = <<>>
    /\ fsys = [p \in Pids |-> Absent]
    /\ gone = {}
    /\ pc = "idle"
    /\ ix = 0
    /\ cur = NoCur
    /\ result = EmptyMap
    /\ ppids = {}
    /\ user_ht = EmptyMap
    /\ outcome = "running"
    /\ failed = {}

ProcInit ==
    /\ sys \in {[now |-> 1010, boot_time |-> 1000, ticks_per_sec |-> 100,
                 kib_per_page |-> 4, memtotal_kib |-> 16000,
                 users |-> (1001 :> <<"z", "a", "p", "p", "a">>)]}
    /\ proc_pids \in EnumLists(MaxEnum)
    /\ fsys \in [Pids -> Profiles \cup {Absent}]
    /\ \A p \in Pids : (fsys[p] = Absent) <=> (p \notin Enumerated)
    /\ gone = {}
    /\ pc = "start"
    /\ ix = 0
    /\ cur = NoCur
    /\ result = EmptyMap
    /\ ppids = {}
    /\ user_ht = EmptyMap
    /\ outcome = "running"
    /\ failed = {}

\* Clocks and memory sizes around the counters: a clock behind the boot
\* time, a clock two and ten seconds after it; memory smaller than, equal to
\* and larger than the resident set of a process.
NumSystems ==
    {[now |-> n, boot_time |-> 1000, ticks_per_sec |-> 100, kib_per_page |-> 4,
      memtotal_kib |-> m, users |-> (1001 :> <<"z", "a", "p", "p", "a">>)] :
        n \in {999, 1002, 1010}, m \in {500, 740, 16000}}

NumProfiles == [kind : {"run", "zombie", "late", "future"}, ppid : {0}]

ProcNumInit ==
    /\ sys \in NumSystems
    /\ proc_pids \in EnumLists(MaxEnum)
    /\ fsys \in [Pids -> NumProfiles \cup {Absent}]
    /\ \A p \in Pids : (fsys[p] = Absent) <=> (p \notin Enumerated)
    /\ gone = {}
    /\ pc = "start"
    /\ ix = 0
    /\ cur = NoCur
    /\ result = EmptyMap
    /\ ppids = {}
    /\ user_ht = EmptyMap
    /\ outcome = "running"
    /\ failed = {}

\* `continue`, or the end of the loop followed by the has_children pass and
\* the return of Ok.
Continue(res, pp, ht, fl) ==
    /\ user_ht' = ht
    /\ failed' = fl
    /\ ppids' = pp
    /\ cur' = NoCur
    /\ IF ix >= Len(proc_pids)
       THEN /\ result' = MarkChildren(res, pp)
            /\ outcome' = "Ok"
            /\ pc' = "done"
            /\ ix' = ix
       ELSE /\ result' = res
            /\ outcome' = outcome
            /\ pc' = "stat"
            /\ ix' = ix + 1

\* `return Err(..)` / the `?` operator, or a panic.
Abort(how) ==
    /\ outcome' = how
    /\ pc' = "done"
    /\ cur' = NoCur
    /\ UNCHANGED <<result, ppids, user_ht, failed, ix>>

\* Up to and including read_proc_pids.
Start ==
    /\ pc = "start"
    /\ IF sys.ticks_per_sec = 0 \/ sys.boot_time = 0
       THEN Abort("Err")
       ELSE IF proc_pids = <<>>
       THEN /\ result' = MarkChildren(EmptyMap, {})
            /\ outcome' = "Ok"
            /\ pc' = "done"
            /\ UNCHANGED <<ppids, user_ht, failed, ix, cur>>
       ELSE /\ pc' = "stat"
            /\ ix' = 1
            /\ UNCHANGED <<result, ppids, user_ht, failed, outcome, cur>>
    /\ UNCHANGED <<sys, fsys, proc_pids, gone>>
    /\ UNCHANGED notProc

\* fs.read_to_string("<pid>/stat") and the work on its text.
ReadStat ==
    /\ pc = "stat"
    /\ LET pid == proc_pids[ix].pid
           r == ReadToString(pid, "stat")
           st == ParseStat(r[2])
       IN  IF ~r[1] THEN Continue(result, ppids, user_ht, failed \cup {<<ix, "stat">>})
           ELSE CASE st.tag = "err" -> Abort("Err")
                  [] st.tag = "panic" -> Abort("panic")
                  [] st.tag = "dead" -> Continue(result, ppids, user_ht, failed)
                  [] OTHER -> /\ pc' = "statm"
                              /\ cur' = [cur EXCEPT !.st = st]
                              /\ UNCHANGED <<result, ppids, user_ht, failed,
                                             outcome, ix>>
    /\ UNCHANGED <<sys, fsys, proc_pids, gone>>
    /\ UNCHANGED notProc

\* fs.read_to_string("<pid>/statm") and the work on its text.
ReadStatm ==
    /\ pc = "statm"
    /\ LET pid == proc_pids[ix].pid
           r == ReadToString(pid, "statm")
           sm == ParseStatm(r[2])
       IN  IF ~r[1] THEN Continue(result, ppids, user_ht, failed \cup {<<ix, "statm">>})
           ELSE IF sm.tag = "err" THEN Abort("Err")
           ELSE /\ pc' = "status"
                /\ cur' = [cur EXCEPT !.sm = sm]
                /\ UNCHANGED <<result, ppids, user_ht, failed, outcome, ix>>
    /\ UNCHANGED <<sys, fsys, proc_pids, gone>>
    /\ UNCHANGED notProc

\* fs.read_to_string("<pid>/status"), the derived quantities, the insertion
\* into the result and, after the last entry, the has_children pass.
ReadStatus ==
    /\ pc = "status"
    /\ LET pid == proc_pids[ix].pid
           uid == proc_pids[ix].uid
           r == ReadToString(pid, "status")
           ps == ParseStatus(r[2])
           was_found == r[1]
           rssanon_kib == IF was_found THEN ps.rssanon_kib ELSE 0
           lk == Lookup(user_ht, uid)
           fl == IF was_found THEN failed ELSE failed \cup {<<ix, "status">>}
       IN  IF was_found /\ ps.tag = "err" THEN Abort("Err")
           ELSE IF DropForStatus(rssanon_kib, was_found)
           THEN Continue(result, ppids, user_ht, fl)
           ELSE Continue(Insert(result, pid,
                                MakeProcess(pid, uid, lk[1], cur.st, cur.sm,
                                            rssanon_kib)),
                         ppids \cup {cur.st.ppid}, lk[2], fl)
    /\ UNCHANGED <<sys, fsys, proc_pids, gone>>
    /\ UNCHANGED notProc

\* An enumerated process exits: its /proc/<pid> files vanish.
ProcessExit(p) ==
    /\ pc \in {"stat", "statm", "status"}
    /\ p \in Enumerated
    /\ p \notin gone
    /\ gone' = gone \cup {p}
    /\ UNCHANGED <<sys, fsys, proc_pids, pc, ix, cur, result, ppids, user_ht,
                   outcome, failed>>
    /\ UNCHANGED notProc

ProcNext ==
    \/ Start
    \/ ReadStat
    \/ ReadStatm
    \/ ReadStatus
    \/ \E p \in Pids : ProcessExit(p)

(***************************************************************************)
(* procfs.rs: get_memory, and the system data get_process_information     *)
(* takes from /proc/stat before it enumerates the pids.                    *)
(***************************************************************************)
\* A version that sums the first five counters.
STAT_FIELDS_first_five == <<1, 2, 3, 4, 5>>

\* The fields of a 'cpu' line that are summed: user, nice, system, irq and
\* softirq.
STAT_FIELDS == <<1, 2, 3, 6, 7>>

\* sum after the loop over STAT_FIELDS from the k-th one on; -1 when a
\* parse_usize_field(..)? fails.
RECURSIVE SumStatFields(_, _)
AddField(v, rest) == IF v = -1 \/ rest = -1 THEN -1 ELSE v + rest

SumStatFields(fields, k) ==
    IF k > Len(STAT_FIELDS) THEN 0
    ELSE AddField(parse_usize_field(fields, STAT_FIELDS[k]), SumStatFields(fields, k + 1))

\* per_cpu_secs.resize(cpu_no + 1, 0) when too short, then
\* per_cpu_secs[cpu_no] = secs
SetCpuSecs(per_cpu_secs, cpu_no, secs) ==
    [k \in 1..(IF Len(per_cpu_secs) < cpu_no + 1 THEN cpu_no + 1 ELSE Len(per_cpu_secs)) |->
        IF k = cpu_no + 1 THEN secs
        ELSE IF k <= Len(per_cpu_secs) THEN per_cpu_secs[k]
        ELSE 0]

\* The locals of get_process_information before the loop over /proc/stat.
StatLocals == [ok |-> TRUE, boot_time |-> 0, cpu_total_secs |-> 0, per_cpu_secs |-> <<>>]

\* The else arm of a 'cpu' line: cpu_no is fields[0][3..].parse::<usize>(),
\* and a tag that does not parse is skipped.
CpuNoLine(st, cpu_no, secs) ==
    IF cpu_no = -1 THEN st
    ELSE [st EXCEPT !.per_cpu_secs = SetCpuSecs(@, cpu_no, secs)]

\* A line that starts with "cpu", given its fields and their sum.
CpuLine(st, l, fields, sum, ticks_per_sec) ==
    IF sum = -1 THEN [st EXCEPT !.ok = FALSE]
    ELSE IF StartsWith(l, <<"c", "p", "u", " ">>)
    THEN [st EXCEPT !.cpu_total_secs = sum \div ticks_per_sec]
    ELSE CpuNoLine(st, ParseUsize(SubSeq(fields[1], 4, Len(fields[1]))),
                   sum \div ticks_per_sec)

\* A line that starts with "btime ", given its parsed field.
BtimeLine(st, v) ==
    IF v = -1 THEN [st EXCEPT !.ok = FALSE] ELSE [st EXCEPT !.boot_time = v]

\* One iteration of the loop over the lines of /proc/stat.  A failed `?`
\* clears ok, and every later iteration is skipped.
StatStep(st, l, ticks_per_sec) ==
    IF ~st.ok THEN st
    ELSE IF StartsWith(l, <<"c", "p", "u">>)
    THEN CpuLine(st, l, SplitAsciiWhitespace(l),
                 SumStatFields(SplitAsciiWhitespace(l), 1), ticks_per_sec)
    ELSE IF StartsWith(l, <<"b", "t", "i", "m", "e", " ">>)
    THEN BtimeLine(st, parse_usize_field(SplitAsciiWhitespace(l), 1))
    ELSE st

RECURSIVE StatLoop(_, _, _, _)
StatLoop(lines, k, st, ticks_per_sec) ==
    IF k > Len(lines) THEN st
    ELSE StatLoop(lines, k + 1, StatStep(st, lines[k], ticks_per_sec), ticks_per_sec)

SysDataFailed(tag) == [tag |-> tag, boot_time |-> 0, cpu_total_secs |-> 0, per_cpu_secs |-> <<>>]

\* The locals after the loop: Err on a failed `?` and on boot_time = 0.
AfterStatLoop(st) ==
    IF ~st.ok \/ st.boot_time = 0 THEN SysDataFailed("Err")
    ELSE [tag |-> "Ok", boot_time |-> st.boot_time,
          cpu_total_secs |-> st.cpu_total_secs, per_cpu_secs |-> st.per_cpu_secs]

\* get_process_information up to the test of boot_time.  file is what
\* read_to_string("stat") returns: <<FALSE, <<>> >> is Err.
SystemData(ticks_per_sec, file) ==
    IF ticks_per_sec = 0 THEN SysDataFailed("Err")
    ELSE IF ~file[1] THEN SysDataFailed("Err")
    ELSE AfterStatLoop(StatLoop(SplitChar(file[2], "\n"), 1, StatLocals, ticks_per_sec))

\* The locals of get_memory before its loop.
MemLocals == [ok |-> TRUE, total |-> 0, available |-> 0]

\* A version of the check of a line that does not look at the unit.
MemLine_any_unit(st, which, fields) ==
    IF Len(fields) # 3 \/ parse_usize_field(fields, 1) = -1 THEN [st EXCEPT !.ok = FALSE]
    ELSE [st EXCEPT ![which] = parse_usize_field(fields, 1)]

\* A MemTotal or MemAvailable line, given its fields: three of them, the
\* last one "kB", the second one a number.
MemLine(st, which, fields) ==
    IF Len(fields) # 3 \/ fields[3] # <<"k", "B">> THEN [st EXCEPT !.ok = FALSE]
    ELSE IF parse_usize_field(fields, 1) = -1 THEN [st EXCEPT !.ok = FALSE]
    ELSE [st EXCEPT ![which] = parse_usize_field(fields, 1)]

MemStep(st, l) ==
    IF ~st.ok THEN st
    ELSE IF StartsWith(l, <<"M", "e", "m", "T", "o", "t", "a", "l", ":", " ">>) THEN MemLine(st, "total", SplitAsciiWhitespace(l))
    ELSE IF StartsWith(l, <<"M", "e", "m", "A", "v", "a", "i", "l", "a", "b", "l", "e", ":", " ">>) THEN MemLine(st, "available", SplitAsciiWhitespace(l))
    ELSE st

RECURSIVE MemLoop(_, _, _)
MemLoop(lines, k, st) ==
    IF k > Len(lines) THEN st ELSE MemLoop(lines, k + 1, MemStep(st, lines[k]))

MemoryFailed(tag) == [tag |-> tag, total |-> 0, available |-> 0]

AfterMemLoop(st) ==
    IF ~st.ok \/ st.total = 0 THEN MemoryFailed("Err")
    ELSE [tag |-> "Ok", total |-> st.total, available |-> st.available]

\* file is what read_to_string("meminfo") returns.
get_memory(file) ==
    IF ~file[1] THEN MemoryFailed("Err")
    ELSE AfterMemLoop(MemLoop(SplitChar(file[2], "\n"), 1, MemLocals))

(***************************************************************************)
(* get_memory and get_process_information as a state machine, on files of  *)
(* a few lines.  The loop over the pids is reduced to its file accesses.   *)
(***************************************************************************)
StatLineKinds ==
    {<<"c", "p", "u", " ", " ", "1", "5", "0", " ", "5", "0", " ", "1", "0", "0", " ", "9", "0", "0", " ", "7", " ", "6", "0", " ", "4", "0">>,
     <<"c", "p", "u", "0", " ", "1", "0", "0", " ", "0", " ", "5", "0", " ", "5", "0", "0", " ", "3", " ", "3", "0", " ", "2", "0">>,
     <<"c", "p", "u", "0", " ", "1", "0", " ", "0", " ", "0", " ", "0", " ", "0", " ", "0", " ", "0">>,
     <<"c", "p", "u", "2", " ", "2", "5", "0", " ", "0", " ", "5", "0", " ", "0", " ", "0", " ", "0", " ", "0">>,
     <<"c", "p", "u", "1", " ", "x", " ", "0", " ", "0", " ", "0", " ", "0", " ", "0", " ", "0">>,
     <<"c", "p", "u", "1", " ", "1", " ", "2", " ", "3">>,
     <<"c", "p", "u", "\t", "7", "0", "0", " ", "0", " ", "0", " ", "0", " ", "0", " ", "0", " ", "0">>,
     <<"b", "t", "i", "m", "e", " ", "1", "6", "9", "8", "3", "0", "3", "2", "9", "5">>,
     <<"b", "t", "i", "m", "e", " ", "0">>}

MemLineKinds ==
    {<<"M", "e", "m", "T", "o", "t", "a", "l", ":", " ", " ", " ", " ", " ", " ", " ", "1", "6", "0", "9", "3", "7", "7", "6", " ", "k", "B">>,
     <<"M", "e", "m", "T", "o", "t", "a", "l", ":", " ", "0", " ", "k", "B">>,
     <<"M", "e", "m", "T", "o", "t", "a", "l", ":", " ", "1", "6", " ", "M", "B">>,
     <<"M", "e", "m", "T", "o", "t", "a", "l", ":", " ", "m", "a", "n", "y", " ", "k", "B">>,
     <<"M", "e", "m", "A", "v", "a", "i", "l", "a", "b", "l", "e", ":", " ", " ", " ", "8", "1", "6", "2", "0", "6", "8", " ", "k", "B">>,
     <<"M", "e", "m", "A", "v", "a", "i", "l", "a", "b", "l", "e", ":", " ", "1", "2">>,
     <<"M", "e", "m", "F", "r", "e", "e", ":", " ", "5", " ", "k", "B">>}

\* The text of a file: its lines, each ended by '\n'.
FileOfLines(lines) == JoinWith([k \in 1..Len(lines) |-> lines[k] \o <<"\n">>], <<>>)

FilesOf(kinds) ==
    {<<FALSE, <<>> >>}
    \cup {<<TRUE, FileOfLines(ls)>> : ls \in UNION {[1..n -> kinds] : n \in 0..MaxStatLines}}

GoodStatFile == <<TRUE, FileOfLines(<<<<"c", "p", "u", " ", " ", "1", "5", "0", " ", "5", "0", " ", "1", "0", "0", " ", "9", "0", "0", " ", "7", " ", "6", "0", " ", "4", "0">>, <<"b", "t", "i", "m", "e", " ", "1", "6", "9", "8", "3", "0", "3", "2", "9", "5">>>>)>>

GoodMeminfo == <<TRUE, FileOfLines(<<<<"M", "e", "m", "T", "o", "t", "a", "l", ":", " ", " ", " ", " ", " ", " ", " ", "1", "6", "0", "9", "3", "7", "7", "6", " ", "k", "B">>>>)>>

ClockTicks == {0, 1, 100}

StatIdle ==
    /\ clk_tck = 0
    /\ stat_file = <<FALSE, <<>> >>
    /\ sys_data = SysDataFailed("idle")
    /\ fs_reads = <<>>
    /\ gpi_pc = "idle"
    /\ pids_left = 0
    /\ meminfo = <<FALSE, <<>> >>
    /\ memory = MemoryFailed("idle")

\* One of /proc/stat, CLK_TCK and /proc/meminfo varies and the others are
\* good: 100 ticks per second, a good file.
StatInit ==
    /\ \E vary \in {"stat", "ticks", "meminfo"} :
          /\ clk_tck \in (IF vary = "ticks" THEN ClockTicks ELSE {100})
          /\ stat_file \in (IF vary = "stat" THEN FilesOf(StatLineKinds) ELSE {GoodStatFile})
          /\ meminfo \in (IF vary = "meminfo" THEN FilesOf(MemLineKinds) ELSE {GoodMeminfo})
    /\ sys_data = SysDataFailed("none")
    /\ fs_reads = <<>>
    /\ gpi_pc = "start"
    /\ pids_left = 0
    /\ memory = MemoryFailed("none")

GetMemory ==
    /\ gpi_pc = "start"
    /\ memory.tag = "none"
    /\ memory' = get_memory(meminfo)
    /\ UNCHANGED <<clk_tck, stat_file, sys_data, fs_reads, gpi_pc, pids_left, meminfo>>
    /\ UNCHANGED notStat

\* get_process_information from its start to the test of boot_time.
\* /proc/stat is read unless CLK_TCK is 0.  Its argument memtotal_kib is the
\* total that get_memory returned.
ReadSystemData ==
    /\ gpi_pc = "start"
    /\ memory.tag = "Ok"
    /\ sys_data' = SystemData(clk_tck, stat_file)
    /\ fs_reads' = IF clk_tck = 0 THEN <<>> ELSE <<"stat">>
    /\ gpi_pc' = IF SystemData(clk_tck, stat_file).tag = "Ok" THEN "enumerate" ELSE "Err"
    /\ UNCHANGED <<clk_tck, stat_file, pids_left, meminfo, memory>>
    /\ UNCHANGED notStat

\* fs.read_proc_pids()?: Err, or some number of pids.
ReadProcPids ==
    /\ gpi_pc = "enumerate"
    /\ fs_reads' = Append(fs_reads, "read_proc_pids")
    /\ \/ gpi_pc' = "Err" /\ pids_left' = 0
       \/ gpi_pc' = "loop" /\ pids_left' \in 0..MaxPidReads
    /\ UNCHANGED <<clk_tck, stat_file, sys_data, meminfo, memory>>
    /\ UNCHANGED notStat

\* One iteration of the loop over the pids: it reads the files of the pid.
ReadPidFiles ==
    /\ gpi_pc = "loop"
    /\ pids_left > 0
    /\ fs_reads' = Append(fs_reads, "pid/stat")
    /\ pids_left' = pids_left - 1
    /\ UNCHANGED <<clk_tck, stat_file, sys_data, gpi_pc, meminfo, memory>>
    /\ UNCHANGED notStat

\* Ok((result, cpu_total_secs, per_cpu_secs))
ReturnSample ==
    /\ gpi_pc = "loop"
    /\ pids_left = 0
    /\ gpi_pc' = "Ok"
    /\ UNCHANGED <<clk_tck, stat_file, sys_data, fs_reads, pids_left, meminfo, memory>>
    /\ UNCHANGED notStat

StatNext == GetMemory \/ ReadSystemData \/ ReadProcPids \/ ReadPidFiles \/ ReturnSample

(***************************************************************************)
(* procfs.rs: the /proc/cpuinfo parsers.  i32 keeps its width: a field     *)
(* outside [-2^31, 2^31 - 1] does not parse, and the one division of the   *)
(* parser panics on i32::MIN / -1.                                         *)
(***************************************************************************)
MaxI32 == 2147483647

MinI32 == 0 - MaxI32 - 1

None == <<"none">>

HexLower == <<"0", "1", "2", "3", "4", "5", "6", "7", "8", "9", "a", "b", "c", "d", "e", "f">>

HexUpper == <<"0", "1", "2", "3", "4", "5", "6", "7", "8", "9", "A", "B", "C", "D", "E", "F">>

\* char::to_digit(radix): -1 when c is not a digit of the radix.
ToDigit(c, radix) ==
    IF \E k \in 1..radix : HexLower[k] = c \/ HexUpper[k] = c
    THEN (CHOOSE k \in 1..radix : HexLower[k] = c \/ HexUpper[k] = c) - 1
    ELSE -1

\* acc * radix + d fits i32, for acc >= 0.
FitsAbove(acc, radix, d) == acc <= (MaxI32 - d) \div radix

\* acc * radix - d fits i32, for acc <= 0.
FitsBelow(acc, radix, d) ==
    IF d = 0
    THEN 0 - acc <= (MaxI32 \div radix) + (IF MaxI32 % radix = radix - 1 THEN 1 ELSE 0)
    ELSE 0 - acc <= (MaxI32 - d + 1) \div radix

\* The checked accumulation of from_str_radix: digits are added for a
\* positive number and subtracted for a negative one, each step checked.
RECURSIVE RadixValue(_, _, _, _)
RadixValue(s, radix, neg, acc) ==
    IF s = <<>> THEN [ok |-> TRUE, val |-> acc]
    ELSE LET d == ToDigit(Head(s), radix)
         IN  IF d = -1 THEN [ok |-> FALSE, val |-> 0]
             ELSE IF neg
             THEN IF FitsBelow(acc, radix, d)
                  THEN RadixValue(Tail(s), radix, neg, acc * radix - d)
                  ELSE [ok |-> FALSE, val |-> 0]
             ELSE IF FitsAbove(acc, radix, d)
                  THEN RadixValue(Tail(s), radix, neg, acc * radix + d)
                  ELSE [ok |-> FALSE, val |-> 0]

\* i32::from_str_radix: an optional sign followed by one or more digits of
\* the radix, the value within i32.
FromStrRadixI32(tok, radix) ==
    LET signed == tok # <<>> /\ Head(tok) \in {"+", "-"}
        body == IF signed THEN Tail(tok) ELSE tok
    IN  IF body = <<>> THEN [ok |-> FALSE, val |-> 0]
        ELSE RadixValue(body, radix, signed /\ Head(tok) = "-", 0)

\* l.split_once(':'), the part after the colon, trimmed; None without colon.
AfterColon(l) ==
    IF Find(l, ":") = 0 THEN None ELSE Trim(SubSeq(l, Find(l, ":") + 1, Len(l)))

text_field(l) ==
    IF AfterColon(l) = None THEN [ok |-> FALSE, val |-> <<>>]
    ELSE [ok |-> TRUE, val |-> AfterColon(l)]

i32_field(l) ==
    LET after == AfterColon(l)
    IN  IF after = None THEN [ok |-> FALSE, val |-> 0]
        ELSE IF StartsWith(after, <<"0", "x">>)
        THEN FromStrRadixI32(SubSeq(after, 3, Len(after)), 16)
        ELSE FromStrRadixI32(after, 10)

\* The / of i32 for a positive divisor: truncation toward zero.
TruncDivPos(a, b) ==
    IF a < 0 /\ a % b # 0 THEN (a \div b) + 1 ELSE a \div b

\* The / of i32: truncation toward zero.  The caller excludes i32::MIN / -1.
TruncDiv(a, b) ==
    IF b > 0 THEN TruncDivPos(a, b)
    ELSE IF b = MinI32 THEN (IF a = MinI32 THEN 1 ELSE 0)
    ELSE 0 - TruncDivPos(a, 0 - b)

CpuInfoFailed(tag) ==
    [tag |-> tag, sockets |-> 0, cores_per_socket |-> 0, threads_per_core |-> 0,
     cores |-> <<>>]

\* The locals of get_cpu_info_x86_64 before its loop.
X86Locals ==
    [ok |-> TRUE, physids |-> {}, cores |-> <<>>, model_name |-> None,
     physical_index |-> 0, logical_index |-> 0, cores_per_socket |-> 0,
     siblings |-> 0, sockets |-> 0]

\* cores.push(CoreInfo {..}) if a model name is pending.
PushPending(st) ==
    IF st.model_name = None THEN st
    ELSE [st EXCEPT !.cores = Append(@, [model_name |-> st.model_name,
                                         physical_index |-> st.physical_index,
                                         logical_index |-> st.logical_index])]

\* A version that counts every 'physical id' line.
NoteSocket_every_line(st, id) ==
    [st EXCEPT !.physids = @ \cup {id}, !.sockets = @ + 1]

\* The 'physical id' arm after the field is parsed.
NoteSocket(st, id) ==
    IF id \in st.physids THEN st
    ELSE [st EXCEPT !.physids = @ \cup {id}, !.sockets = @ + 1]

\* One iteration of the for loop of get_cpu_info_x86_64, on line l.  A
\* failed `?` clears ok, and every later iteration is skipped.
X86Step(st, l) ==
    LET n == i32_field(l)
        t == text_field(l)
        failed_here == [st EXCEPT !.ok = FALSE]
    IN  IF ~st.ok THEN st
        ELSE IF StartsWith(l, <<"p", "r", "o", "c", "e", "s", "s", "o", "r">>)
        THEN IF ~n.ok THEN failed_here
             ELSE [PushPending(st) EXCEPT !.model_name = None,
                                          !.logical_index = n.val,
                                          !.physical_index = 0]
        ELSE IF StartsWith(l, <<"m", "o", "d", "e", "l", " ", "n", "a", "m", "e">>)
        THEN IF ~t.ok THEN failed_here ELSE [st EXCEPT !.model_name = t.val]
        ELSE IF StartsWith(l, <<"p", "h", "y", "s", "i", "c", "a", "l", " ", "i", "d">>)
        THEN IF ~n.ok THEN failed_here
             ELSE NoteSocket([st EXCEPT !.physical_index = n.val], n.val)
        ELSE IF StartsWith(l, <<"s", "i", "b", "l", "i", "n", "g", "s">>)
        THEN IF ~n.ok THEN failed_here ELSE [st EXCEPT !.siblings = n.val]
        ELSE IF StartsWith(l, <<"c", "p", "u", " ", "c", "o", "r", "e", "s">>)
        THEN IF ~n.ok THEN failed_here ELSE [st EXCEPT !.cores_per_socket = n.val]
        ELSE st

\* The for loop of get_cpu_info_x86_64 over lines lo..hi, in order; it ends
\* at the first failed `?`.
RECURSIVE X86Loop(_, _, _, _)
X86Loop(lines, lo, hi, st) ==
    IF lo > hi THEN st
    ELSE IF lo = hi THEN X86Step(st, lines[lo])
    ELSE LET first == X86Loop(lines, lo, (lo + hi) \div 2, st)
         IN  IF first.ok THEN X86Loop(lines, (lo + hi) \div 2 + 1, hi, first)
             ELSE first

\* file is what read_to_string returned: <<FALSE, <<>> >> is Err.
get_cpu_info_x86_64(file) ==
    LET lines == SplitChar(file[2], "\n")
        r == X86Loop(lines, 1, Len(lines), X86Locals)
        st == PushPending(r)
    IN  IF ~file[1] \/ ~r.ok THEN CpuInfoFailed("Err")
        ELSE IF \/ Len(st.cores) = 0 \/ st.sockets = 0
                \/ st.siblings = 0 \/ st.cores_per_socket = 0
        THEN CpuInfoFailed("Err")
        ELSE IF st.siblings = MinI32 /\ st.cores_per_socket = -1
        THEN CpuInfoFailed("panic")
        ELSE [tag |-> "Ok", sockets |-> st.sockets,
              cores_per_socket |-> st.cores_per_socket,
              threads_per_core |-> TruncDiv(st.siblings, st.cores_per_socket),
              cores |-> st.cores]

\* The locals of get_cpu_info_aarch64 before its loop.
Aarch64Locals == [ok |-> TRUE, processors |-> {}, model_major |-> 0, model_minor |-> 0]

\* One iteration of the for loop of get_cpu_info_aarch64, on line l.
\* A version that keeps the first 'CPU architecture' and 'CPU variant' set.
Aarch64Step_first_seen(st, l) ==
    LET n == i32_field(l)
        key == StartsWith(l, <<"p", "r", "o", "c", "e", "s", "s", "o", "r">>) \/ StartsWith(l, <<"C", "P", "U", " ", "a", "r", "c", "h", "i", "t", "e", "c", "t", "u", "r", "e">>)
               \/ StartsWith(l, <<"C", "P", "U", " ", "v", "a", "r", "i", "a", "n", "t">>)
    IN  IF ~st.ok THEN st
        ELSE IF key /\ ~n.ok THEN [st EXCEPT !.ok = FALSE]
        ELSE IF StartsWith(l, <<"p", "r", "o", "c", "e", "s", "s", "o", "r">>)
        THEN [st EXCEPT !.processors = @ \cup {n.val}]
        ELSE IF StartsWith(l, <<"C", "P", "U", " ", "a", "r", "c", "h", "i", "t", "e", "c", "t", "u", "r", "e">>)
        THEN IF st.model_major # 0 THEN st ELSE [st EXCEPT !.model_major = n.val]
        ELSE IF StartsWith(l, <<"C", "P", "U", " ", "v", "a", "r", "i", "a", "n", "t">>)
        THEN IF st.model_minor # 0 THEN st ELSE [st EXCEPT !.model_minor = n.val]
        ELSE st

Aarch64Step(st, l) ==
    LET n == i32_field(l)
        key == StartsWith(l, <<"p", "r", "o", "c", "e", "s", "s", "o", "r">>) \/ StartsWith(l, <<"C", "P", "U", " ", "a", "r", "c", "h", "i", "t", "e", "c", "t", "u", "r", "e">>)
               \/ StartsWith(l, <<"C", "P", "U", " ", "v", "a", "r", "i", "a", "n", "t">>)
    IN  IF ~st.ok THEN st
        ELSE IF key /\ ~n.ok THEN [st EXCEPT !.ok = FALSE]
        ELSE IF StartsWith(l, <<"p", "r", "o", "c", "e", "s", "s", "o", "r">>)
        THEN [st EXCEPT !.processors = @ \cup {n.val}]
        ELSE IF StartsWith(l, <<"C", "P", "U", " ", "a", "r", "c", "h", "i", "t", "e", "c", "t", "u", "r", "e">>)
        THEN [st EXCEPT !.model_major = n.val]
        ELSE IF StartsWith(l, <<"C", "P", "U", " ", "v", "a", "r", "i", "a", "n", "t">>)
        THEN [st EXCEPT !.model_minor = n.val]
        ELSE st

\* The for loop of get_cpu_info_aarch64 over lines lo..hi, in order; it ends
\* at the first failed `?`.
RECURSIVE Aarch64Loop(_, _, _, _)
Aarch64Loop(lines, lo, hi, st) ==
    IF lo > hi THEN st
    ELSE IF lo = hi THEN Aarch64Step(st, lines[lo])
    ELSE LET first == Aarch64Loop(lines, lo, (lo + hi) \div 2, st)
         IN  IF first.ok THEN Aarch64Loop(lines, (lo + hi) \div 2 + 1, hi, first)
             ELSE first

get_cpu_info_aarch64(file) ==
    LET lines == SplitChar(file[2], "\n")
        r == Aarch64Loop(lines, 1, Len(lines), Aarch64Locals)
        cores_per_socket == Cardinality(r.processors)
        model_name == <<"A", "R", "M", "v">> \o FmtI(r.model_major) \o <<".">> \o FmtI(r.model_minor)
    IN  IF ~file[1] \/ ~r.ok THEN CpuInfoFailed("Err")
        ELSE [tag |-> "Ok", sockets |-> 1,
              cores_per_socket |-> cores_per_socket,
              threads_per_core |-> 1,
              cores |-> [k \in 1..cores_per_socket |->
                            [model_name |-> model_name, physical_index |-> 0,
                             logical_index |-> k - 1]]]

(***************************************************************************)
(* get_cpu_info as a state machine, on cpuinfo files made of blocks.       *)
(***************************************************************************)
\* The fields of a block by kind: None for a line the block does not have.
X86Block(model, physid, siblings, cores) ==
    [arch |-> "x86_64", processor |-> TRUE, model |-> model, physid |-> physid,
     siblings |-> siblings, cores |-> cores]

Aarch64Block(processor, major, minor) ==
    [arch |-> "aarch64", processor |-> processor, major |-> major, minor |-> minor]

BlockKinds ==
    {X86Block(TRUE, <<"0">>, <<"8">>, <<"4">>),
     X86Block(TRUE, <<"1">>, <<"8">>, <<"4">>),
     X86Block(TRUE, <<"1">>, <<"2">>, <<"4">>),
     X86Block(FALSE, <<"0">>, <<"8">>, <<"4">>),
     X86Block(TRUE, <<"0">>, None, <<"4">>),
     X86Block(TRUE, <<"0">>, <<"8">>, None),
     X86Block(TRUE, None, <<"8">>, <<"4">>),
     X86Block(TRUE, <<"0">>, <<"0">>, <<"4">>),
     X86Block(TRUE, <<"0">>, <<"-", "8">>, <<"4">>),
     X86Block(TRUE, <<"-", "1">>, <<"-", "8">>, <<"-", "4">>),
     X86Block(TRUE, <<"0">>, <<"m", "a", "n", "y">>, <<"4">>),
     X86Block(TRUE, <<"0", "x", "1">>, <<"0", "x", "1", "0">>, <<"0", "x", "8">>),
     X86Block(TRUE, <<"0">>, <<"-", "2", "1", "4", "7", "4", "8", "3", "6", "4", "8">>, <<"-", "1">>),
     [X86Block(TRUE, <<"0">>, <<"8">>, <<"4">>) EXCEPT !.processor = FALSE],
     Aarch64Block(TRUE, <<"8">>, <<"0", "x", "3">>),
     Aarch64Block(TRUE, <<"9">>, <<"0", "x", "1">>),
     Aarch64Block(FALSE, <<"8">>, <<"0", "x", "3">>)}

CpuinfoLine(key, val) == IF val = None THEN <<>> ELSE <<key \o <<"\t", ":", " ">> \o val>>

\* The lines of the k-th block (k from 0) of a file, the empty line that
\* ends it included.
BlockLines(b, k) ==
    (IF b.processor THEN CpuinfoLine(<<"p", "r", "o", "c", "e", "s", "s", "o", "r">>, FmtU(k)) ELSE <<>>)
    \o (IF b.arch = "x86_64"
        THEN CpuinfoLine(<<"m", "o", "d", "e", "l">>, <<"7", "9">>)
             \o (IF b.model THEN CpuinfoLine(<<"m", "o", "d", "e", "l", " ", "n", "a", "m", "e">>, <<"I", "n", "t", "e", "l", "(", "R", ")", " ", "X", "e", "o", "n", "(", "R", ")", " ", "C", "P", "U", " ", "E", "5", "-", "2", "6", "3", "7">>)
                 ELSE <<>>)
             \o CpuinfoLine(<<"p", "h", "y", "s", "i", "c", "a", "l", " ", "i", "d">>, b.physid)
             \o CpuinfoLine(<<"s", "i", "b", "l", "i", "n", "g", "s">>, b.siblings)
             \o CpuinfoLine(<<"c", "p", "u", " ", "c", "o", "r", "e", "s">>, b.cores)
        ELSE CpuinfoLine(<<"C", "P", "U", " ", "a", "r", "c", "h", "i", "t", "e", "c", "t", "u", "r", "e">>, b.major) \o CpuinfoLine(<<"C", "P", "U", " ", "v", "a", "r", "i", "a", "n", "t">>, b.minor))
    \o << <<>> >>

\* The concatenation of pieces lo..hi, by halves.
RECURSIVE Flatten(_, _, _)
Flatten(pieces, lo, hi) ==
    IF lo > hi THEN <<>>
    ELSE IF lo = hi THEN pieces[lo]
    ELSE Flatten(pieces, lo, (lo + hi) \div 2)
         \o Flatten(pieces, (lo + hi) \div 2 + 1, hi)

\* The text of a file: every line of every block, each ended by '\n'.
CpuinfoText(blocks) ==
    LET texts == [k \in 1..Len(blocks) |->
                     LET lines == BlockLines(blocks[k], k - 1)
                     IN  Flatten([j \in 1..Len(lines) |-> lines[j] \o <<"\n">>],
                                 1, Len(lines))]
    IN  Flatten(texts, 1, Len(blocks))

\* Two sockets of four cores of two threads: sixteen blocks.
TwoSocketFile ==
    CpuinfoText([k \in 1..16 |->
                    X86Block(TRUE, IF k % 2 = 1 THEN <<"0">> ELSE <<"1">>, <<"8">>, <<"4">>)])

\* Two aarch64 blocks that both say processor 0, with different
\* architecture and variant.
RepeatedProcessorFile ==
    CpuinfoText(<<Aarch64Block(TRUE, <<"8">>, <<"0", "x", "3">>)>>)
    \o CpuinfoText(<<Aarch64Block(TRUE, <<"9">>, <<"0", "x", "1">>)>>)

CpuinfoTexts ==
    {TwoSocketFile, RepeatedProcessorFile}
    \cup {CpuinfoText(bs) : bs \in UNION {[1..n -> BlockKinds] : n \in 0..MaxBlocks}}

CpuIdle ==
    /\ cpuinfo = <<FALSE, <<>> >>
    /\ cpu_info = CpuInfoFailed("none")
    /\ cpu_pc = "idle"

CpuInit ==
    /\ cpuinfo \in {<<FALSE, <<>> >>} \cup {<<TRUE, t>> : t \in CpuinfoTexts}
    /\ cpu_info = CpuInfoFailed("none")
    /\ cpu_pc = "start"

GetCpuInfoX86_64 ==
    /\ cpu_pc = "start"
    /\ cpu_info' = get_cpu_info_x86_64(cpuinfo)
    /\ cpu_pc' = "x86_64"
    /\ UNCHANGED cpuinfo
    /\ UNCHANGED notCpu

GetCpuInfoAarch64 ==
    /\ cpu_pc = "start"
    /\ cpu_info' = get_cpu_info_aarch64(cpuinfo)
    /\ cpu_pc' = "aarch64"
    /\ UNCHANGED cpuinfo
    /\ UNCHANGED notCpu

CpuNext == GetCpuInfoX86_64 \/ GetCpuInfoAarch64

(***************************************************************************)
(* amd.rs: the rocm-smi scrapers and the apportioning of device use.       *)
(***************************************************************************)
\* str::lines, collected: the pieces between '\n', without the empty piece
\* after a final '\n'.
WithoutFinalEmpty(pieces) ==
    IF pieces[Len(pieces)] = <<>> THEN SubSeq(pieces, 1, Len(pieces) - 1)
    ELSE pieces

Lines(text) == WithoutFinalEmpty(SplitChar(text, "\n"))

\* str::contains
Contains(s, sub) ==
    \E i \in 1..(Len(s) - Len(sub) + 1) : SubSeq(s, i, i + Len(sub) - 1) = sub

\* s.chars().all(|c| c == '=')
is_terminator(s) == \A i \in 1..Len(s) : s[i] = "="

\* The lines after the first one that contains the trigger, up to the first
\* terminator line or the end of the text.
BlockOf(lines, trigger) ==
    LET hits == {i \in 1..Len(lines) : Contains(lines[i], trigger)}
        first == CHOOSE i \in hits : \A j \in hits : i <= j
        ends == {i \in (first + 1)..Len(lines) : is_terminator(lines[i])}
        last == IF ends = {} THEN Len(lines)
                ELSE (CHOOSE i \in ends : \A j \in ends : i <= j) - 1
    IN  IF hits = {} THEN <<>> ELSE SubSeq(lines, first + 1, last)

find_block(raw_text, trigger) == BlockOf(Lines(raw_text), trigger)

\* str::parse::<usize>().unwrap_or_default()
ParseUsizeOrDefault(tok) == IF ParseUsize(tok) = -1 THEN 0 ELSE ParseUsize(tok)

RECURSIVE MapParseOrDefault(_)
MapParseOrDefault(toks) ==
    IF toks = <<>> THEN <<>>
    ELSE <<ParseUsizeOrDefault(Head(toks))>> \o MapParseOrDefault(Tail(toks))

PidGpusTrigger == <<"=", " ", "G", "P", "U", "s", " ", "I", "n", "d", "e", "x", "e", "d", " ", "b", "y", " ", "P", "I", "D", " ", "=">>

\* The test of one "PID <pid> is using <n> DRM device(s):" line, with the
\* short-circuit order of the source: "panic" when an index is out of range.
PidLineTest(xs) ==
    IF Len(xs) < 1 THEN "panic"
    ELSE IF xs[1] # <<"P", "I", "D">> THEN "no"
    ELSE IF Len(xs) < 3 THEN "panic"
    ELSE IF xs[3] # <<"i", "s">> THEN "no"
    ELSE IF Len(xs) < 4 THEN "panic"
    ELSE IF xs[4] # <<"u", "s", "i", "n", "g">> THEN "no"
    ELSE IF Len(xs) < 6 THEN "panic"
    ELSE IF xs[6] # <<"D", "R", "M">> THEN "no"
    ELSE "yes"

\* The while loop of parse_showpidgpus_command, from 1-based line i on.
RECURSIVE PidGpusLoop(_, _, _)
PidGpusLoop(block, i, mappings) ==
    IF i > Len(block) THEN [tag |-> "Ok", val |-> mappings]
    ELSE LET xs == SplitAsciiWhitespace(block[i])
             t == PidLineTest(xs)
             pid == ParseUsizeOrDefault(xs[2])
             numdev == ParseUsizeOrDefault(xs[5])
             devices == IF numdev > 0
                        THEN MapParseOrDefault(SplitAsciiWhitespace(block[i + 1]))
                        ELSE <<>>
         IN  CASE t = "panic" -> [tag |-> "panic", val |-> <<>>]
               [] t = "no" -> PidGpusLoop(block, i + 2, mappings)
               [] OTHER -> PidGpusLoop(block, i + 2,
                                       Append(mappings, [pid |-> pid, devs |-> devices]))

\* A parser without the "No KFD PIDs" case.
parse_showpidgpus_command_pairs_only(raw_text) ==
    LET block == find_block(raw_text, PidGpusTrigger)
    IN  IF Len(block) > 1 /\ Len(block) % 2 = 0
        THEN PidGpusLoop(block, 1, <<>>)
        ELSE [tag |-> "Err", val |-> <<>>]

\* parse_showpidgpus_command, from the block find_block returned on.
ParsePidGpusBlock(block) ==
    IF Len(block) = 1 /\ StartsWith(block[1], <<"N", "o", " ", "K", "F", "D", " ", "P", "I", "D", "s">>)
    THEN [tag |-> "Ok", val |-> <<>>]
    ELSE IF Len(block) > 1 /\ Len(block) % 2 = 0
    THEN PidGpusLoop(block, 1, <<>>)
    ELSE [tag |-> "Err", val |-> <<>>]

parse_showpidgpus_command(raw_text) == ParsePidGpusBlock(find_block(raw_text, PidGpusTrigger))

\* user_by_pid, as in test_extract_amd_information: one known pid.
AmdUsers == (1 :> [user |-> <<"b", "o", "b">>, uid |-> 1001])

ZOMBIE_UID == 666666

\* All (pid, dev) pairs of the pid map, in the order of the two nested
\* for_each loops.
RECURSIVE PidDevPairs(_)
PidDevPairs(per_pid_info) ==
    IF per_pid_info = <<>> THEN <<>>
    ELSE [k \in 1..Len(Head(per_pid_info).devs) |->
             [pid |-> Head(per_pid_info).pid, dev |-> Head(per_pid_info).devs[k]]]
         \o PidDevPairs(Tail(per_pid_info))

\* A version that counts the pids that use the device, not the uses.
NumProcessesPerDevice_by_pid(per_pid_info, dev) ==
    Cardinality({i \in 1..Len(per_pid_info) :
                    \E k \in 1..Len(per_pid_info[i].devs) : per_pid_info[i].devs[k] = dev})

\* num_processes_per_device[dev] after the first pass: one increment per
\* (pid, dev) pair.
NumProcessesPerDevice(per_pid_info, dev) ==
    Cardinality({k \in 1..Len(PidDevPairs(per_pid_info)) :
                    PidDevPairs(per_pid_info)[k].dev = dev})

\* The gpu::Process pushed for one (pid, dev) pair.  gpu_pct and mem_pct are
\* exact fractions num / den.
GpuProcess(per_device_info, per_pid_info, pid, dev) ==
    LET n == NumProcessesPerDevice(per_pid_info, dev)
    IN  [device |-> dev, pid |-> pid,
         user |-> IF pid \in DOMAIN AmdUsers THEN AmdUsers[pid].user
                  ELSE <<"_", "z", "o", "m", "b", "i", "e", "_">> \o FmtU(pid),
         uid |-> IF pid \in DOMAIN AmdUsers THEN AmdUsers[pid].uid ELSE ZOMBIE_UID,
         gpu_pct |-> [num |-> per_device_info[dev + 1].gpu, den |-> n],
         mem_pct |-> [num |-> per_device_info[dev + 1].mem, den |-> n],
         mem_size_kib |-> 0, command |-> <<"_", "n", "o", "i", "n", "f", "o", "_">>]

\* A comparator that ignores the device.
ProcessOrder_by_pid(p, q) ==
    IF p.pid < q.pid THEN "Less"
    ELSE IF p.pid > q.pid THEN "Greater"
    ELSE "Equal"

\* The comparator given to sort_by: device, then pid.
ProcessOrder(p, q) ==
    IF p.device < q.device THEN "Less"
    ELSE IF p.device > q.device THEN "Greater"
    ELSE IF p.pid < q.pid THEN "Less"
    ELSE IF p.pid > q.pid THEN "Greater"
    ELSE "Equal"

\* Vec::sort_by, a stable sort: each element goes after the elements that
\* do not compare Greater than it.
RECURSIVE SortInsert(_, _)
SortInsert(sorted, x) ==
    IF sorted = <<>> THEN <<x>>
    ELSE IF ProcessOrder(x, sorted[Len(sorted)]) = "Less"
    THEN Append(SortInsert(SubSeq(sorted, 1, Len(sorted) - 1), x), sorted[Len(sorted)])
    ELSE Append(sorted, x)

RECURSIVE SortBy(_, _)
SortBy(todo, sorted) ==
    IF todo = <<>> THEN sorted ELSE SortBy(Tail(todo), SortInsert(sorted, Head(todo)))

extract_amd_information(per_device_info, per_pid_info) ==
    LET pairs == PidDevPairs(per_pid_info)
    IN  IF \E k \in 1..Len(pairs) : pairs[k].dev >= Len(per_device_info)
        THEN [tag |-> "panic", val |-> <<>>]
        ELSE [tag |-> "Ok",
              val |-> SortBy([k \in 1..Len(pairs) |->
                                 GpuProcess(per_device_info, per_pid_info,
                                            pairs[k].pid, pairs[k].dev)],
                             <<>>)]

(***************************************************************************)
(* get_amd_utilization as a state machine, on the outputs of rocm-smi.     *)
(***************************************************************************)
PidToks == {<<"1">>, <<"2">>, <<"x">>}

NumToks == {<<"0">>, <<"1">>}

DevLineSet == {<<>>, <<"0">>, <<"1", " ", "0">>, <<"0", " ", "0">>}

PidLine(pidtok, ntok) ==
    <<"P", "I", "D", " ">> \o pidtok \o <<" ", "i", "s", " ", "u", "s", "i", "n", "g", " ">> \o ntok \o <<" ", "D", "R", "M", " ", "d", "e", "v", "i", "c", "e", "(", "s", ")", ":">>

\* Bodies of n "PID ..." / device-list line pairs.
RECURSIVE PairBodies(_)
PairBodies(n) ==
    IF n = 0 THEN {<<>>}
    ELSE {b \o <<PidLine(pt, nt), dl>> :
             b \in PairBodies(n - 1), pt \in PidToks, nt \in NumToks, dl \in DevLineSet}

\* Bodies that are not a list of pairs.
OddBodies ==
    {<<<<"N", "o", " ", "K", "F", "D", " ", "P", "I", "D", "s", " ", "c", "u", "r", "r", "e", "n", "t", "l", "y", " ", "r", "u", "n", "n", "i", "n", "g">>>>,
     <<PidLine(<<"1">>, <<"1">>)>>,
     <<<<"P", "I", "D", " ", "1">>, <<"0">>>>,
     <<<<" ">>, <<"0">>>>,
     <<<<"G", "P", "U", " ", "0">>, <<"0">>>>}

AmdBodies == OddBodies \cup UNION {PairBodies(n) : n \in 0..MaxPairs}

\* The text rocm-smi --showpidgpus prints around a body.
ShowPidGpusText(body) ==
    <<"\n">> \o <<"=", "=", "=", " ", "G", "P", "U", "s", " ", "I", "n", "d", "e", "x", "e", "d", " ", "b", "y", " ", "P", "I", "D", " ", "=", "=", "=">> \o <<"\n">>
    \o JoinWith([k \in 1..Len(body) |-> body[k] \o <<"\n">>], <<>>)
    \o <<"=", "=", "=", "=", "=", "=">> \o <<"\n">>

PerDeviceTables ==
    {<<>>, <<[gpu |-> 99, mem |-> 57]>>,
     <<[gpu |-> 99, mem |-> 57], [gpu |-> 63, mem |-> 5]>>}

AmdIdle ==
    /\ amd_raw_text = <<>>
    /\ amd_per_device = <<>>
    /\ amd_per_pid = <<>>
    /\ amd_out = <<>>
    /\ amd_pc = "idle"

AmdInit ==
    /\ amd_raw_text \in {ShowPidGpusText(b) : b \in AmdBodies}
    /\ amd_per_device \in PerDeviceTables
    /\ amd_per_pid = <<>>
    /\ amd_out = <<>>
    /\ amd_pc = "start"

\* get_amd_utilization, given the table get_raw_per_device_info returned and
\* the text of rocm-smi --showpidgpus.
GetAmdUtilization ==
    /\ amd_pc = "start"
    /\ LET r == parse_showpidgpus_command(amd_raw_text)
           e == extract_amd_information(amd_per_device, r.val)
       IN  IF r.tag # "Ok"
           THEN /\ amd_pc' = r.tag
                /\ UNCHANGED <<amd_per_pid, amd_out>>
           ELSE /\ amd_per_pid' = r.val
                /\ amd_out' = e.val
                /\ amd_pc' = e.tag
    /\ UNCHANGED <<amd_raw_text, amd_per_device>>
    /\ UNCHANGED notAmd

AmdNext == GetAmdUtilization

(***************************************************************************)
(* amd.rs: the parsers of the per-device tables and of the card list.      *)
(***************************************************************************)
\* str::parse::<f64>, on the decimal integers the utilization columns hold:
\* an optional sign followed by one or more digits.  Anything else is Err.
ParseF64(tok) ==
    LET signed == tok # <<>> /\ Head(tok) \in {"+", "-"}
        body == IF signed THEN Tail(tok) ELSE tok
    IN  IF body # <<>> /\ \A i \in 1..Len(body) : IsDigit(body[i])
        THEN [ok |-> TRUE,
              val |-> IF signed /\ Head(tok) = "-" THEN 0 - DigitsValue(body, 0)
                      ELSE DigitsValue(body, 0)]
        ELSE [ok |-> FALSE, val |-> 0]

\* mappings.resize(dev + 1, (0.0, 0.0)) when too short, then mappings[dev] = e
SetMapping(mappings, dev, e) ==
    LET n == IF Len(mappings) < dev + 1 THEN dev + 1 ELSE Len(mappings)
    IN  [k \in 1..n |-> IF k = dev + 1 THEN e
                        ELSE IF k <= Len(mappings) THEN mappings[k]
                        ELSE [gpu |-> 0, mem |-> 0]]

\* The for loop of parse_csv_concise_command, from 1-based line i on.
RECURSIVE CsvConciseLoop(_, _, _, _)
CsvConciseLoop(lines, i, mappings, found_device) ==
    IF i > Len(lines)
    THEN IF found_device /\ Len(mappings) > 0
         THEN [tag |-> "Ok", val |-> mappings]
         ELSE [tag |-> "Err", val |-> <<>>]
    ELSE LET l == lines[i]
             hdr == SplitChar(l, ",")
             fields == SplitChar(SubSeq(l, 5, Len(l)), ",")
             dev == ParseUsize(fields[1])
             gpu == ParseF64(fields[2])
             gpumem == ParseF64(fields[3])
         IN  IF StartsWith(l, <<"d", "e", "v", "i", "c", "e">>)
             THEN IF found_device THEN [tag |-> "Err", val |-> <<>>]
                  ELSE CsvConciseLoop(lines, i + 1, mappings,
                           /\ Len(hdr) >= 3
                           /\ StartsWith(hdr[2], <<"G", "P", "U", " ", "u", "s", "e">>)
                           /\ StartsWith(hdr[3], <<"G", "P", "U", " ", "M", "e", "m", "o", "r", "y">>))
             ELSE IF /\ StartsWith(l, <<"c", "a", "r", "d">>)
                     /\ Len(fields) >= 3
                     /\ dev # -1 /\ gpu.ok /\ gpumem.ok
             THEN CsvConciseLoop(lines, i + 1,
                      SetMapping(mappings, dev, [gpu |-> gpu.val, mem |-> gpumem.val]),
                      found_device)
             ELSE CsvConciseLoop(lines, i + 1, mappings, found_device)

parse_csv_concise_command(raw_text) == CsvConciseLoop(Lines(raw_text), 1, <<>>, FALSE)

\* tok.strip_suffix('%').unwrap_or("0").parse::<f64>().unwrap_or_default()
PercentOrDefault(tok) ==
    IF tok # <<>> /\ tok[Len(tok)] = "%"
    THEN ParseF64(SubSeq(tok, 1, Len(tok) - 1)).val
    ELSE 0

\* The while loop of parse_text_concise_command, from 1-based line i on.
\* "panic" when a line has fewer than two fields.
RECURSIVE TextConciseLoop(_, _, _)
TextConciseLoop(block, i, mappings) ==
    IF i > Len(block) THEN [tag |-> "Ok", val |-> mappings]
    ELSE LET fields == SplitAsciiWhitespace(block[i])
             dev == ParseUsizeOrDefault(fields[1])
             mem == PercentOrDefault(fields[Len(fields) - 1])
             gpu == PercentOrDefault(fields[Len(fields)])
         IN  IF Len(fields) < 2 THEN [tag |-> "panic", val |-> <<>>]
             ELSE TextConciseLoop(block, i + 1,
                      SetMapping(mappings, dev, [gpu |-> gpu, mem |-> mem]))

ConciseTrigger == <<"=", " ", "C", "o", "n", "c", "i", "s", "e", " ", "I", "n", "f", "o", " ", "=">>

\* "panic" when the header line has fewer than two fields.
ParseConciseBlock(block) ==
    LET hdr == SplitAsciiWhitespace(block[1])
    IN  IF Len(block) > 1
        THEN IF Len(hdr) < 2 THEN [tag |-> "panic", val |-> <<>>]
             ELSE IF hdr[Len(hdr) - 1] = <<"V", "R", "A", "M", "%">> /\ hdr[Len(hdr)] = <<"G", "P", "U", "%">>
             THEN TextConciseLoop(block, 2, <<>>)
             ELSE [tag |-> "Err", val |-> <<>>]
        ELSE [tag |-> "Err", val |-> <<>>]

parse_text_concise_command(raw_text) == ParseConciseBlock(find_block(raw_text, ConciseTrigger))

\* l.split_once(sub), the part after the first occurrence; <<"none">> stands
\* for None (it is not a text: its element is not one character).
AfterFirst(l, sub) ==
    LET hits == {i \in 1..(Len(l) - Len(sub) + 1) : SubSeq(l, i, i + Len(sub) - 1) = sub}
        first == CHOOSE i \in hits : \A j \in hits : i <= j
    IN  IF hits = {} THEN <<"none">> ELSE SubSeq(l, first + Len(sub), Len(l))

\* The for loop of get_amd_configuration, from 1-based line i on: the model
\* of each card.
RECURSIVE CardModels(_, _)
CardModels(lines, i) ==
    IF i > Len(lines) THEN <<>>
    ELSE LET l == lines[i]
             lower == AfterFirst(l, <<"C", "a", "r", "d", " ", "s", "e", "r", "i", "e", "s", ":">>)
             upper == AfterFirst(l, <<"C", "a", "r", "d", " ", "S", "e", "r", "i", "e", "s", ":">>)
         IN  (IF ~StartsWith(l, <<"G", "P", "U", "[">>) THEN <<>>
              ELSE IF lower # <<"none">> THEN <<Trim(lower)>>
              ELSE IF upper # <<"none">> THEN <<Trim(upper)>>
              ELSE <<>>) \o CardModels(lines, i + 1)

(***************************************************************************)
(* amd.rs: the four rocm-smi invocations.  An operation is given the       *)
(* answers of safe_command by invocation, and returns its result together  *)
(* with the invocations it made.                                           *)
(***************************************************************************)
ShowProductName == "--showproductname"

ShowUseCsv == "--showuse --showmemuse --csv"

BareRocmSmi == "rocm-smi"

ShowPidGpus == "--showpidgpus"

Invocations == {ShowProductName, ShowUseCsv, BareRocmSmi, ShowPidGpus}

\* The variants of CmdError.
CmdErrors == {"CouldNotStart", "Timeout", "NonZeroExit", "IoError"}

Returned(tag, val, ran) == [tag |-> tag, val |-> val, ran |-> ran]

\* A version that propagates every error of the CSV invocation.
get_raw_per_device_info_propagating(run) ==
    LET first == run[ShowUseCsv]
        csv == parse_csv_concise_command(first.text)
        second == run[BareRocmSmi]
        text == parse_text_concise_command(second.text)
    IN  IF first.tag = "Ok" /\ csv.tag = "Ok"
        THEN Returned("Ok", csv.val, <<ShowUseCsv>>)
        ELSE IF first.tag = "CouldNotStart"
        THEN Returned("Ok", <<>>, <<ShowUseCsv>>)
        ELSE IF first.tag # "Ok"
        THEN Returned("Err", <<>>, <<ShowUseCsv>>)
        ELSE IF second.tag = "Ok"
        THEN Returned(text.tag, text.val, <<ShowUseCsv, BareRocmSmi>>)
        ELSE IF second.tag = "CouldNotStart"
        THEN Returned("Ok", <<>>, <<ShowUseCsv, BareRocmSmi>>)
        ELSE Returned("Err", <<>>, <<ShowUseCsv, BareRocmSmi>>)

\* A version that makes both invocations whatever the first one answers.
get_raw_per_device_info_both(run) ==
    LET first == run[ShowUseCsv]
        csv == parse_csv_concise_command(first.text)
        second == run[BareRocmSmi]
        text == parse_text_concise_command(second.text)
    IN  IF first.tag = "Ok" /\ csv.tag = "Ok"
        THEN Returned("Ok", csv.val, <<ShowUseCsv, BareRocmSmi>>)
        ELSE IF second.tag = "Ok"
        THEN Returned(text.tag, text.val, <<ShowUseCsv, BareRocmSmi>>)
        ELSE IF second.tag = "CouldNotStart"
        THEN Returned("Ok", <<>>, <<ShowUseCsv, BareRocmSmi>>)
        ELSE Returned("Err", <<>>, <<ShowUseCsv, BareRocmSmi>>)

get_raw_per_device_info(run) ==
    LET first == run[ShowUseCsv]
        csv == parse_csv_concise_command(first.text)
        second == run[BareRocmSmi]
        text == parse_text_concise_command(second.text)
    IN  IF first.tag = "Ok" /\ csv.tag = "Ok"
        THEN Returned("Ok", csv.val, <<ShowUseCsv>>)
        ELSE IF first.tag = "CouldNotStart"
        THEN Returned("Ok", <<>>, <<ShowUseCsv>>)
        ELSE IF second.tag = "Ok"
        THEN Returned(text.tag, text.val, <<ShowUseCsv, BareRocmSmi>>)
        ELSE IF second.tag = "CouldNotStart"
        THEN Returned("Ok", <<>>, <<ShowUseCsv, BareRocmSmi>>)
        ELSE Returned("Err", <<>>, <<ShowUseCsv, BareRocmSmi>>)

get_raw_per_pid_info(run) ==
    LET o == run[ShowPidGpus]
        r == parse_showpidgpus_command(o.text)
    IN  IF o.tag = "Ok" THEN Returned(r.tag, r.val, <<ShowPidGpus>>)
        ELSE IF o.tag = "CouldNotStart" THEN Returned("Ok", <<>>, <<ShowPidGpus>>)
        ELSE Returned("Err", <<>>, <<ShowPidGpus>>)

get_amd_configuration(run) ==
    LET o == run[ShowProductName]
    IN  IF o.tag = "Ok"
        THEN Returned("Ok", CardModels(Lines(o.text), 1), <<ShowProductName>>)
        ELSE IF o.tag = "CouldNotStart" THEN Returned("Ok", <<>>, <<ShowProductName>>)
        ELSE Returned("Err", <<>>, <<ShowProductName>>)

(***************************************************************************)
(* get_amd_configuration and get_amd_utilization as a state machine, on    *)
(* the answers of safe_command.                                            *)
(***************************************************************************)
ProductNameTexts ==
    {<<"G", "P", "U", "[", "0", "]", "\t", ":", " ", "C", "a", "r", "d", " ", "s", "e", "r", "i", "e", "s", ":", " ", "\t", "M", "I", "2", "5", "0", "X", "\n", "G", "P", "U", "[", "1", "]", "\t", ":", " ", "C", "a", "r", "d", " ", "S", "e", "r", "i", "e", "s", ":", " ", "M", "I", "1", "0", "0", "\n", "=", "=", "=", "=", "\n">>,
     <<"E", "R", "R", "O", "R", "\n">>}

CsvTexts ==
    {<<"\n", "d", "e", "v", "i", "c", "e", ",", "G", "P", "U", " ", "u", "s", "e", " ", "(", "%", ")", ",", "G", "P", "U", " ", "M", "e", "m", "o", "r", "y", " ", "A", "l", "l", "o", "c", "a", "t", "e", "d", " ", "(", "V", "R", "A", "M", "%", ")", ",", "M", "e", "m", "o", "r", "y", " ", "A", "c", "t", "i", "v", "i", "t", "y", "\n", "c", "a", "r", "d", "0", ",", "9", "9", ",", "5", "7", ",", "N", "/", "A", "\n", "c", "a", "r", "d", "1", ",", "6", "3", ",", "5", ",", "N", "/", "A", "\n">>,
     <<"\n", "d", "e", "v", "i", "c", "e", ",", "G", "P", "U", " ", "u", "s", "e", " ", "(", "%", ")", ",", "G", "P", "U", " ", "M", "e", "m", "o", "r", "y", " ", "A", "l", "l", "o", "c", "a", "t", "e", "d", " ", "(", "V", "R", "A", "M", "%", ")", "\n", "c", "a", "r", "d", "0", ",", "N", "/", "A", ",", "5", "7", "\n">>,
     <<"c", "a", "r", "d", "0", ",", "9", "9", ",", "5", "7", "\n">>}

BareTexts ==
    {<<"\n", "=", "=", "=", " ", "C", "o", "n", "c", "i", "s", "e", " ", "I", "n", "f", "o", " ", "=", "=", "=", "\n", "G", "P", "U", " ", " ", "T", "e", "m", "p", " ", " ", "V", "R", "A", "M", "%", " ", " ", "G", "P", "U", "%", "\n", "0", " ", " ", "5", "3", ".", "0", "c", " ", " ", "5", "7", "%", " ", " ", "9", "9", "%", "\n", "1", " ", " ", "2", "6", ".", "0", "c", " ", " ", "5", "%", " ", " ", "6", "3", "%", "\n", "=", "=", "=", "=", "=", "=", "\n">>,
     <<"\n", "=", "=", "=", " ", "C", "o", "n", "c", "i", "s", "e", " ", "I", "n", "f", "o", " ", "=", "=", "=", "\n", "G", "P", "U", " ", " ", "T", "e", "m", "p", " ", " ", "G", "P", "U", "%", " ", " ", "V", "R", "A", "M", "%", "\n", "0", " ", " ", "5", "3", ".", "0", "c", " ", " ", "9", "9", "%", " ", " ", "5", "7", "%", "\n", "=", "=", "=", "=", "=", "=", "\n">>,
     <<"\n", "=", "=", "=", " ", "C", "o", "n", "c", "i", "s", "e", " ", "I", "n", "f", "o", " ", "=", "=", "=", "\n", "G", "P", "U", "%", "\n", "0", "\n", "=", "=", "=", "=", "=", "=", "\n">>,
     <<"E", "R", "R", "O", "R", "\n">>}

PidGpusTexts ==
    {ShowPidGpusText(b) : b \in
        {<<<<"N", "o", " ", "K", "F", "D", " ", "P", "I", "D", "s", " ", "c", "u", "r", "r", "e", "n", "t", "l", "y", " ", "r", "u", "n", "n", "i", "n", "g">>>>,
         <<PidLine(<<"1">>, <<"1">>), <<"0">>>>,
         <<PidLine(<<"2">>, <<"1">>), <<"1", " ", "0">>>>,
         <<<<"P", "I", "D", " ", "1">>, <<"0">>>>}}

Answers(texts) ==
    {[tag |-> "Ok", text |-> t] : t \in texts} \cup {[tag |-> e, text |-> <<>>] : e \in CmdErrors}

Operations == {"get_amd_configuration", "get_raw_per_device_info", "get_raw_per_pid_info"}

NotCalled == [tag |-> "none", val |-> <<>>, ran |-> <<>>]

CmdIdle ==
    /\ cmd_out = <<>>
    /\ cmd_ran = <<>>
    /\ amd_res = <<>>

CmdInit ==
    /\ \E p \in Answers(ProductNameTexts), c \in Answers(CsvTexts),
          b \in Answers(BareTexts), g \in Answers(PidGpusTexts) :
          cmd_out = [i \in Invocations |->
                        CASE i = ShowProductName -> p
                          [] i = ShowUseCsv -> c
                          [] i = BareRocmSmi -> b
                          [] OTHER -> g]
    /\ cmd_ran = <<>>
    /\ amd_res = [op \in Operations |-> NotCalled]
    /\ amd_raw_text = <<>>
    /\ amd_per_device = <<>>
    /\ amd_per_pid = <<>>
    /\ amd_out = <<>>
    /\ amd_pc = "device"

GetAmdConfiguration ==
    /\ amd_res # <<>>
    /\ amd_res["get_amd_configuration"] = NotCalled
    /\ LET r == get_amd_configuration(cmd_out)
       IN  /\ amd_res' = [amd_res EXCEPT !["get_amd_configuration"] = r]
           /\ cmd_ran' = cmd_ran \o r.ran
    /\ UNCHANGED <<cmd_out, amdVars>>
    /\ UNCHANGED notCmd

\* get_amd_utilization, its first argument: get_raw_per_device_info()?
GetRawPerDeviceInfo ==
    /\ amd_pc = "device"
    /\ LET r == get_raw_per_device_info(cmd_out)
       IN  /\ amd_res' = [amd_res EXCEPT !["get_raw_per_device_info"] = r]
           /\ cmd_ran' = cmd_ran \o r.ran
           /\ amd_per_device' = r.val
           /\ amd_pc' = IF r.tag = "Ok" THEN "pid" ELSE r.tag
    /\ UNCHANGED <<cmd_out, amd_raw_text, amd_per_pid, amd_out>>
    /\ UNCHANGED notCmd

\* get_amd_utilization, its second argument, get_raw_per_pid_info()?, and
\* the call of extract_amd_information.
GetRawPerPidInfo ==
    /\ amd_pc = "pid"
    /\ LET r == get_raw_per_pid_info(cmd_out)
           e == extract_amd_information(amd_per_device, r.val)
       IN  /\ amd_res' = [amd_res EXCEPT !["get_raw_per_pid_info"] = r]
           /\ cmd_ran' = cmd_ran \o r.ran
           /\ amd_raw_text' = cmd_out[ShowPidGpus].text
           /\ IF r.tag # "Ok"
              THEN /\ amd_pc' = r.tag
                   /\ UNCHANGED <<amd_per_pid, amd_out>>
              ELSE /\ amd_per_pid' = r.val
                   /\ amd_out' = e.val
                   /\ amd_pc' = e.tag
    /\ UNCHANGED <<cmd_out, amd_per_device>>
    /\ UNCHANGED notCmd

CmdNext == GetAmdConfiguration \/ GetRawPerDeviceInfo \/ GetRawPerPidInfo

(***************************************************************************)
(* slurm.rs: the job id of a pid, from its cgroup file.  The extraction   *)
(* command is the pipeline                                                 *)
(*   cat /proc/<pid>/cgroup | grep -oP '(?<=job_).*?(?=/)' | head -n 1     *)
(* computed here on the text of the file.                                  *)
(***************************************************************************)
JobPrefix == <<"j", "o", "b", "_">>

\* The positions p >= i of a line that are preceded by "job_" and followed,
\* at p or later, by a '/': where the pattern can match.
MatchStarts(l, i) ==
    {p \in i..Len(l) : /\ p > Len(JobPrefix)
                       /\ SubSeq(l, p - Len(JobPrefix), p - 1) = JobPrefix
                       /\ \E q \in p..Len(l) : l[q] = "/"}

\* grep -o on one line, from position i on: the non-empty matches, left to
\* right.  A match is the shortest text up to a '/'; after an empty match
\* the search goes on one character later.
RECURSIVE GrepLine(_, _)
GrepLine(l, i) ==
    LET starts == MatchStarts(l, i)
        p == CHOOSE x \in starts : \A y \in starts : x <= y
        q == CHOOSE x \in p..Len(l) : l[x] = "/" /\ \A y \in p..(x - 1) : l[y] # "/"
    IN  IF starts = {} THEN <<>>
        ELSE IF q = p THEN GrepLine(l, p + 1)
        ELSE <<SubSeq(l, p, q - 1)>> \o GrepLine(l, q)

\* grep -o on a text: the matches of every line, each on a line of output.
RECURSIVE GrepLines(_, _)
GrepLines(lines, k) ==
    IF k > Len(lines) THEN <<>>
    ELSE GrepLine(lines[k], 1) \o GrepLines(lines, k + 1)

\* A pipeline without `head -n 1`: every match is in the output.
Pipeline_without_head(text) ==
    LET found == GrepLines(Lines(text), 1)
    IN  JoinWith([k \in 1..Len(found) |-> found[k] \o <<"\n">>], <<>>)

\* The output of the pipeline on the text of the cgroup file.
Pipeline(text) ==
    LET found == GrepLines(Lines(text), 1)
    IN  IF found = <<>> THEN <<>> ELSE found[1] \o <<"\n">>

\* get_slurm_job_id: None when the file does not exist or the command
\* fails, the output of the command otherwise.
get_slurm_job_id(file, answer) ==
    IF ~file[1] THEN None
    ELSE IF answer = "Ok" THEN Pipeline(file[2])
    ELSE None

\* SlurmJobManager::job_id_from_pid
job_id_from_pid(file, answer) ==
    LET found == get_slurm_job_id(file, answer)
        slurm_job_id == IF found = None THEN <<>> ELSE found
    IN  ParseUsizeOrDefault(Trim(slurm_job_id))

\* SlurmJobManager::need_process_tree
need_process_tree == "false"

(***************************************************************************)
(* SlurmJobManager as a state machine, on cgroup files of a few lines.     *)
(***************************************************************************)
CgroupLines ==
    {<<"0", ":", ":", "/", "s", "l", "u", "r", "m", "/", "u", "i", "d", "_", "1", "0", "0", "0", "/", "j", "o", "b", "_", "1", "2", "3", "4", "5", "/", "s", "t", "e", "p", "_", "0", "/", "t", "a", "s", "k", "_", "0">>,
     <<"1", ":", "c", "p", "u", ":", "/", "s", "l", "u", "r", "m", "/", "j", "o", "b", "_", "7", "7", "/", "j", "o", "b", "_", "8", "8", "/", "x">>,
     <<"0", ":", ":", "/", "u", "s", "e", "r", ".", "s", "l", "i", "c", "e", "/", "u", "s", "e", "r", "-", "1", "0", "0", "0", ".", "s", "l", "i", "c", "e">>,
     <<"0", ":", ":", "/", "s", "l", "u", "r", "m", "/", "j", "o", "b", "_", "1", "2", "a", "/", "s", "t", "e", "p", "_", "0">>,
     <<"0", ":", ":", "/", "s", "l", "u", "r", "m", "/", "j", "o", "b", "_", "/", "s", "t", "e", "p", "_", "0">>,
     <<"0", ":", ":", "/", "s", "l", "u", "r", "m", "/", "j", "o", "b", "_", "9", "9">>,
     <<"0", ":", ":", "/", "s", "l", "u", "r", "m", "/", "j", "o", "b", "_", "+", "5", "/", "x">>,
     <<"0", ":", ":", "/", "s", "l", "u", "r", "m", "/", "j", "o", "b", "_", "-", "3", "/", "x">>,
     <<"0", ":", ":", "/", "s", "l", "u", "r", "m", "/", "j", "o", "b", "_", " ", "7", " ", "/", "x">>,
     <<"0", ":", ":", "/", "s", "l", "u", "r", "m", "/", "s", "u", "b", "_", "j", "o", "b", "_", "4", "/", "x">>,
     <<"0", ":", ":", "/", "s", "l", "u", "r", "m", "/", "j", "o", "b", "_", "0", "/", "x">>}

CgroupTexts ==
    {JoinWith([k \in 1..Len(ls) |-> ls[k] \o <<"\n">>], <<>>) :
        ls \in UNION {[1..n -> CgroupLines] : n \in 0..MaxCgroupLines}}

SlurmIdle ==
    /\ cgroup = <<FALSE, <<>> >>
    /\ slurm_cmd = "idle"
    /\ job_id = -1
    /\ need_tree = "none"

SlurmInit ==
    /\ cgroup \in {<<FALSE, <<>> >>} \cup {<<TRUE, t>> : t \in CgroupTexts}
    /\ slurm_cmd \in {"Ok"} \cup CmdErrors
    /\ job_id = -1
    /\ need_tree = "none"

JobIdFromPid ==
    /\ slurm_cmd # "idle"
    /\ job_id = -1
    /\ job_id' = job_id_from_pid(cgroup, slurm_cmd)
    /\ UNCHANGED <<cgroup, slurm_cmd, need_tree>>
    /\ UNCHANGED notSlurm

NeedProcessTree ==
    /\ slurm_cmd # "idle"
    /\ need_tree = "none"
    /\ need_tree' = need_process_tree
    /\ UNCHANGED <<cgroup, slurm_cmd, job_id>>
    /\ UNCHANGED notSlurm

SlurmNext == JobIdFromPid \/ NeedProcessTree

(***************************************************************************)
(* time.rs: the parser of yyyy-mm-ddThh:mm[:ss].                           *)
(***************************************************************************)
\* str::parse::<u32>: an optional '+' followed by one or more decimal
\* digits.  A value above 2^31 - 1 reads as Err here, within u32 or not:
\* the parser below rejects both alike.
ParseU32(tok) ==
    LET body == IF tok # <<>> /\ Head(tok) = "+" THEN Tail(tok) ELSE tok
    IN  IF body = <<>> THEN [ok |-> FALSE, val |-> 0]
        ELSE RadixValue(body, 10, FALSE, 0)

\* A range test that forgets the months of thirty days.
DateFieldOutOfRange_no_thirty(yr, mo, dy, hr, mi, ss) ==
    \/ yr < 1970
    \/ yr > 2100
    \/ mo < 1
    \/ mo > 12
    \/ dy < 1
    \/ (mo = 2 /\ dy > 29)
    \/ dy > 31
    \/ hr > 23
    \/ mi > 59
    \/ ss > 60

\* The condition of "Date field out of range": && binds tighter than ||.
DateFieldOutOfRange(yr, mo, dy, hr, mi, ss) ==
    \/ yr < 1970
    \/ yr > 2100
    \/ mo < 1
    \/ mo > 12
    \/ dy < 1
    \/ (mo = 2 /\ dy > 29)
    \/ (mo \in {1, 3, 5, 7, 8, 10, 12} /\ dy > 31)
    \/ (mo \in {2, 4, 6, 9, 11} /\ dy > 30)
    \/ hr > 23
    \/ mi > 59
    \/ ss > 60

NoTm ==
    [tm_sec |-> 0, tm_min |-> 0, tm_hour |-> 0, tm_mday |-> 0, tm_mon |-> 0,
     tm_year |-> 0, tm_wday |-> 0, tm_yday |-> 0, tm_isdst |-> 0, tm_gmtoff |-> 0]

parse_date_and_time_no_tzo(s) ==
    LET components == SplitChar(s, "T")
        ymd == SplitChar(components[1], "-")
        hms == SplitChar(components[2], ":")
        yr == ParseU32(ymd[1])
        mo == ParseU32(ymd[2])
        dy == ParseU32(ymd[3])
        hr == ParseU32(hms[1])
        mi == ParseU32(hms[2])
        ss == IF Len(hms) = 3 THEN ParseU32(hms[3]) ELSE [ok |-> TRUE, val |-> 0]
        err == [tag |-> "Err", tm |-> NoTm]
    IN  IF Len(components) # 2 THEN err
        ELSE IF Len(ymd) # 3 THEN err
        ELSE IF Len(hms) # 2 /\ Len(hms) # 3 THEN err
        ELSE IF ~yr.ok \/ ~mo.ok \/ ~dy.ok \/ ~hr.ok \/ ~mi.ok \/ ~ss.ok THEN err
        ELSE IF DateFieldOutOfRange(yr.val, mo.val, dy.val, hr.val, mi.val, ss.val)
        THEN err
        ELSE [tag |-> "Ok",
              tm |-> [NoTm EXCEPT !.tm_sec = ss.val, !.tm_min = mi.val,
                                  !.tm_hour = hr.val, !.tm_mday = dy.val,
                                  !.tm_mon = mo.val - 1, !.tm_year = yr.val - 1900]]

(***************************************************************************)
(* parse_date_and_time_no_tzo as a state machine, on time stamps made of   *)
(* fields around the limits and on the strings of its test.                *)
(***************************************************************************)
YearFields == {<<"1", "9", "6", "9">>, <<"1", "9", "7", "0">>, <<"2", "0", "2", "4">>, <<"2", "1", "0", "0">>, <<"2", "1", "0", "1">>, <<"+", "2", "0", "2", "4">>, <<"x">>}

MonthFields == {<<"0">>, <<"1">>, <<"0", "2">>, <<"4">>, <<"1", "2">>, <<"1", "3">>}

DayFields == {<<"0">>, <<"1">>, <<"2", "9">>, <<"3", "0">>, <<"3", "1">>, <<"3", "2">>}

HourFields == {<<"7">>, <<"2", "3">>, <<"2", "4">>}

MinuteFields == {<<"7">>, <<"1", "7">>, <<"5", "9">>, <<"6", "0">>}

SecondFields == {None, <<"1", "4">>, <<"6", "0">>, <<"6", "1">>}

Stamp(yr, mo, dy, hr, mi, ss) ==
    yr \o <<"-">> \o mo \o <<"-">> \o dy \o <<"T">> \o hr \o <<":">> \o mi
    \o (IF ss = None THEN <<>> ELSE <<":">> \o ss)

Stamps ==
    {Stamp(yr, mo, dy, hr, mi, ss) :
        yr \in YearFields, mo \in MonthFields, dy \in DayFields,
        hr \in HourFields, mi \in MinuteFields, ss \in SecondFields}

OtherTexts ==
    {<<>>,
     <<"2", "0", "2", "4", "-", "1", "0", "-", "3", "1", "T", "1", "1", ":", "1", "7">>,
     <<"2", "0", "2", "2", "-", "0", "7", "-", "0", "1", "T", "2", "3", ":", "5", "9", ":", "1", "4">>,
     <<"2", "0", "2", "2", "0", "7", "-", "0", "1", "T", "2", "3", ":", "5", "9", ":", "1", "4">>,
     <<"2", "0", "2", "2", "-", "0", "7", "-", "0", "1", "T", "2", "3", ":", "5", "9", "1", "4">>,
     <<"2", "0", "2", "2", "-", "0", "7", "-", "0", "1", "T", "2", "3", "5", "9">>,
     <<"2", "0", "2", "2", "-", "0", "7", "-", "0", "1", "T", "2", "3", ":", "5", "9", "+", "0", "3", ":", "3", "0">>,
     <<"2", "0", "2", "2", "-", "0", "7", "-", "0", "1", "T", "2", "3", ":", "5", "9", ":", "1", "4", "+", "0", "3", ":", "3", "0">>,
     <<"2", "0", "2", "2", "-", "0", "7", "-", "0", "1", "T", "2", "3", ":", "5", "9", ":", "1", "4", "-", "0", "3", "3", "0">>,
     <<"2", "0", "2", "2", "-", "0", "7", "-", "0", "1", "T", "2", "3", ":", "5", "9", ":", "1", "4", "Z">>,
     <<"2", "0", "2", "2", "-", "0", "7", "-", "0", "1", " ", "2", "3", ":", "5", "9", ":", "1", "4">>,
     <<"2", "0", "2", "2", "-", "0", "7", "-", "0", "1", "t", "2", "3", ":", "5", "9", ":", "1", "4">>,
     <<"2", "0", "2", "2", "-", "0", "7", "-", "0", "1", "T", "2", "3", ":", "5", "9", ":", "1", "4", "T">>,
     <<"2", "0", "2", "2", "-", "0", "7", "-", "0", "1", "T", "2", "3", ":", "5", "9", ":", "1", "4", ":", "0", "0">>,
     <<"2", "0", "2", "2", "-", "0", "7", "-", "0", "1", "-", "0", "1", "T", "2", "3", ":", "5", "9">>,
     <<"2", "0", "2", "2", "-", "0", "7", "-", "T", "2", "3", ":", "5", "9">>,
     <<"-", "2", "0", "2", "2", "-", "0", "7", "-", "0", "1", "T", "2", "3", ":", "5", "9">>,
     <<"2", "0", "2", "2", "-", "0", "7", "-", "0", "1", "T", "2", "3", ":", " ", "5", "9">>,
     <<"2", "0", "2", "2", "-", "0", "7", "-", "0", "1", "T", "2", "3", ":", "5", "9", ":">>,
     <<"0", "2", "0", "2", "2", "-", "0", "0", "7", "-", "0", "0", "1", "T", "0", "2", "3", ":", "0", "5", "9", ":", "0", "1", "4">>,
     <<"2", "0", "2", "2", "-", "0", "7", "-", "0", "1", "T", "2", "3", ":", "5", "9", ":", "9", "9", "9", "9", "9", "9", "9", "9", "9", "9", "9">>}

TimeIdle ==
    /\ date_text = <<>>
    /\ date_res = [tag |-> "idle", tm |-> NoTm]

TimeInit ==
    /\ date_text \in Stamps \cup OtherTexts
    /\ date_res = [tag |-> "none", tm |-> NoTm]

ParseDateAndTimeNoTzo ==
    /\ date_res.tag = "none"
    /\ date_res' = parse_date_and_time_no_tzo(date_text)
    /\ UNCHANGED date_text
    /\ UNCHANGED notTime

TimeNext == ParseDateAndTimeNoTzo

(***************************************************************************)
(* output.rs: the base-45 packing of an unsigned array.                    *)
(***************************************************************************)
BASE == 45

\* The character U+0060, which a string literal of the model cannot hold.
Backtick == "grave"

INITIAL == <<"(", ")", "{", "}", "[", "]", "<", ">", "+", "-", "a", "b", "c", "d", "e", "f", "g", "h", "i", "j", "k", "l", "m", "n", "o", "p", "q", "r", "s", "t", "u", "v", "w", "x", "y", "z", "!", "@", "#", "$", "%", "^", "&", "*", "_">>

SUBSEQUENT == <<"0", "1", "2", "3", "4", "5", "6", "7", "8", "9", "A", "B", "C", "D", "E", "F", "G", "H", "I", "J", "K", "L", "M", "N", "O", "P", "Q", "R", "S", "T", "U", "V", "W", "X", "Y", "Z", "~", "|", "'", ";", ":", ".", "?", "/", Backtick>>

\* An encoder that takes every digit from INITIAL.
RECURSIVE encode_u64_base45el_initial_only(_)
encode_u64_base45el_initial_only(x) ==
    <<INITIAL[(x % BASE) + 1]>>
    \o (IF x \div BASE > 0 THEN encode_u64_base45el_initial_only(x \div BASE) ELSE <<>>)

\* The while loop of encode_u64_base45el: the digits after the first one.
RECURSIVE SubsequentDigits(_)
SubsequentDigits(x) ==
    IF x > 0 THEN <<SUBSEQUENT[(x % BASE) + 1]>> \o SubsequentDigits(x \div BASE)
    ELSE <<>>

encode_u64_base45el(x) == <<INITIAL[(x % BASE) + 1]>> \o SubsequentDigits(x \div BASE)

\* cpu_secs.iter().reduce(std::cmp::min) of a non-empty array.
RECURSIVE ReduceMin(_)
ReduceMin(xs) == IF Len(xs) = 1 THEN xs[1] ELSE Min(xs[1], ReduceMin(Tail(xs)))

\* The for loop of encode_cpu_secs_base45el.  x - base cannot wrap: base is
\* the minimum.
RECURSIVE EncodeEach(_, _)
EncodeEach(xs, base) ==
    IF xs = <<>> THEN <<>>
    ELSE encode_u64_base45el(Head(xs) - base) \o EncodeEach(Tail(xs), base)

\* An encoder that does not emit the minimum in front.
encode_cpu_secs_base45el_no_base(xs) ==
    IF xs = <<>> THEN [tag |-> "panic", text |-> <<>>]
    ELSE [tag |-> "Ok", text |-> EncodeEach(xs, 0)]

\* "panic" is the expect on an empty array.
encode_cpu_secs_base45el(xs) ==
    IF xs = <<>> THEN [tag |-> "panic", text |-> <<>>]
    ELSE [tag |-> "Ok",
          text |-> encode_u64_base45el(ReduceMin(xs)) \o EncodeEach(xs, ReduceMin(xs))]

\* cpu seconds with one, two, three and four base-45 digits.
CpuSecValues == {0, 1, 12, 30, 44, 45, 89, 2025, 91125}

B45Idle ==
    /\ cpu_secs = <<>>
    /\ encoded = <<>>
    /\ b45_pc = "idle"

B45Init ==
    /\ cpu_secs \in UNION {[1..n -> CpuSecValues] : n \in 0..MaxCpus}
    /\ encoded = <<>>
    /\ b45_pc = "start"

EncodeCpuSecs ==
    /\ b45_pc = "start"
    /\ encoded' = encode_cpu_secs_base45el(cpu_secs).text
    /\ b45_pc' = encode_cpu_secs_base45el(cpu_secs).tag
    /\ UNCHANGED cpu_secs
    /\ UNCHANGED notB45

B45Next == EncodeCpuSecs

(***************************************************************************)
(* output.rs: the Value tree and its two serializations.                   *)
(***************************************************************************)
\* enum Value.  A Float is a class ("finite", "nan", "inf"), a sign and a
\* magnitude in tenths.
VS(s) == [t |-> "S", s |-> s]

VU(u) == [t |-> "U", u |-> u]

VI(i) == [t |-> "I", i |-> i]

VF(cls, neg, tenths) == [t |-> "F", cls |-> cls, neg |-> neg, tenths |-> tenths]

VE == [t |-> "E"]

VA(elements, nonempty_base45, sep) ==
    [t |-> "A", elements |-> elements, nonempty_base45 |-> nonempty_base45, sep |-> sep]

VO(fields) == [t |-> "O", fields |-> fields]

Field(tag, value) == [tag |-> tag, value |-> value]

\* format!("{f}") of an f64: no exponent, no fraction when it is zero.
FmtF(f) ==
    IF f.cls = "nan" THEN <<"N", "a", "N">>
    ELSE (IF f.neg THEN <<"-">> ELSE <<>>)
         \o (IF f.cls = "inf" THEN <<"i", "n", "f">>
             ELSE FmtU(f.tenths \div 10)
                  \o (IF f.tenths % 10 = 0 THEN <<>>
                      ELSE <<".">> \o FmtU(f.tenths % 10)))

ControlChars == {"\n", "\t"}

\* util::json_quote: '"' and '\' get a backslash, a control character
\* becomes \u00XX.
RECURSIVE json_quote(_)
json_quote(s) ==
    IF s = <<>> THEN <<>>
    ELSE (CASE Head(s) = "\"" -> <<"\\", "\"">>
            [] Head(s) = "\\" -> <<"\\", "\\">>
            [] Head(s) = "\n" -> <<"\\", "u", "0", "0", "0", "a">>
            [] Head(s) = "\t" -> <<"\\", "u", "0", "0", "0", "9">>
            [] OTHER -> <<Head(s)>>)
         \o json_quote(Tail(s))

\* util::csv_quote: every '"' doubled, and the text wrapped in '"' if it
\* holds a ',' or a '"'.
RECURSIVE DoubleQuotes(_)
DoubleQuotes(s) ==
    IF s = <<>> THEN <<>>
    ELSE (IF Head(s) = "\"" THEN <<"\"", "\"">> ELSE <<Head(s)>>) \o DoubleQuotes(Tail(s))

csv_quote(s) ==
    IF \E i \in 1..Len(s) : s[i] \in {",", "\""}
    THEN <<"\"">> \o DoubleQuotes(s) \o <<"\"">>
    ELSE s

\* What a writer has received: ok is FALSE when a panic stopped the writes.
Written(text) == [ok |-> TRUE, text |-> text]

Panicked == [ok |-> FALSE, text |-> <<>>]

\* The writes of r followed by the writes of next, unless r panicked.
Then(r, next) == IF r.ok THEN [ok |-> next.ok, text |-> r.text \o next.text] ELSE r

\* The map(...).collect() of the base-45 branch, then the encoder: a panic
\* on an element that is not a Value::U and on an empty array.
Base45OfArray(a) ==
    IF \E k \in 1..Len(a.elements) : a.elements[k].t # "U" THEN Panicked
    ELSE LET e == encode_cpu_secs_base45el([k \in 1..Len(a.elements) |-> a.elements[k].u])
         IN  IF e.tag = "Ok" THEN Written(e.text) ELSE Panicked

write_json_string(s) == Written(<<"\"">> \o json_quote(s) \o <<"\"">>)

RECURSIVE write_json_int(_)
RECURSIVE write_json_array(_)
RECURSIVE write_json_object(_)
RECURSIVE WriteJsonElements(_, _)
RECURSIVE WriteJsonFields(_, _)

\* The for loop of write_json_array, from element k on.
WriteJsonElements(elts, k) ==
    IF k > Len(elts) THEN Written(<<>>)
    ELSE Then(Written(IF k > 1 THEN <<",">> ELSE <<>>),
              Then(write_json_int(elts[k]), WriteJsonElements(elts, k + 1)))

write_json_array(a) ==
    IF a.nonempty_base45 THEN Base45OfArray(a)
    ELSE Then(Written(<<"[">>), Then(WriteJsonElements(a.elements, 1), Written(<<"]">>)))

\* The for loop of write_json_object, from field k on.
WriteJsonFields(flds, k) ==
    IF k > Len(flds) THEN Written(<<>>)
    ELSE Then(Written(IF k > 1 THEN <<",">> ELSE <<>>),
              Then(write_json_string(flds[k].tag),
                   Then(Written(<<":">>),
                        Then(write_json_int(flds[k].value), WriteJsonFields(flds, k + 1)))))

write_json_object(o) ==
    Then(Written(<<"{">>), Then(WriteJsonFields(o.fields, 1), Written(<<"}">>)))

write_json_int(v) ==
    CASE v.t = "A" -> write_json_array(v)
      [] v.t = "O" -> write_json_object(v)
      [] v.t = "S" -> write_json_string(v.s)
      [] v.t = "U" -> Written(FmtU(v.u))
      [] v.t = "I" -> Written(FmtI(v.i))
      [] v.t = "F" -> Written(FmtF(v))
      [] v.t = "E" -> Written(<<>>)

write_json(v) == Then(write_json_int(v), Written(<<"\n">>))

RECURSIVE format_csv_value(_)
RECURSIVE format_csv_object(_)
RECURSIVE format_csv_array(_)
RECURSIVE FormatCsvFields(_, _)
RECURSIVE FormatCsvElements(_, _, _)

\* A format_csv_object that quotes the value of a field, not the field.
RECURSIVE FormatCsvFieldsValueQuoted(_, _)
FormatCsvFieldsValueQuoted(flds, k) ==
    IF k > Len(flds) THEN Written(<<>>)
    ELSE LET r == format_csv_value(flds[k].value)
         IN  Then(Written(IF k > 1 THEN <<",">> ELSE <<>>),
                  Then([ok |-> r.ok, text |-> flds[k].tag \o <<"=">> \o csv_quote(r.text)],
                       FormatCsvFieldsValueQuoted(flds, k + 1)))

format_csv_object_value_quoted(o) == FormatCsvFieldsValueQuoted(o.fields, 1)

\* The for loop of format_csv_object, from field k on.
FormatCsvFields(flds, k) ==
    IF k > Len(flds) THEN Written(<<>>)
    ELSE LET r == format_csv_value(flds[k].value)
         IN  Then(Written(IF k > 1 THEN <<",">> ELSE <<>>),
                  Then([ok |-> r.ok, text |-> csv_quote(flds[k].tag \o <<"=">> \o r.text)],
                       FormatCsvFields(flds, k + 1)))

format_csv_object(o) == FormatCsvFields(o.fields, 1)

\* The for loop of format_csv_array, from element k on.
FormatCsvElements(elts, sep, k) ==
    IF k > Len(elts) THEN Written(<<>>)
    ELSE LET r == format_csv_value(elts[k])
         IN  Then(Written(IF k > 1 THEN sep ELSE <<>>),
                  Then([ok |-> r.ok, text |-> csv_quote(r.text)],
                       FormatCsvElements(elts, sep, k + 1)))

format_csv_array(a) ==
    IF a.nonempty_base45 THEN Base45OfArray(a)
    ELSE FormatCsvElements(a.elements, a.sep, 1)

format_csv_value(v) ==
    CASE v.t = "A" -> format_csv_array(v)
      [] v.t = "O" -> format_csv_object(v)
      [] v.t = "S" -> Written(v.s)
      [] v.t = "U" -> Written(FmtU(v.u))
      [] v.t = "I" -> Written(FmtI(v.i))
      [] v.t = "F" -> Written(FmtF(v))
      [] v.t = "E" -> Written(<<>>)

\* A panic in format_csv_value leaves the writer without any text.
write_csv(v) ==
    IF format_csv_value(v).ok THEN Written(format_csv_value(v).text \o <<"\n">>)
    ELSE Panicked

(***************************************************************************)
(* write_json and write_csv as a state machine, on the trees of test_json  *)
(* and test_csv and their neighbours.                                      *)
(***************************************************************************)
Strings == {<<"a">>, <<"h", "e", "l", "l", "o", ",", " ", "\"", "s", "i", "r", "\"">>, <<"s", "t", "r", "i", "\\", "n", "g">>, <<"x", "\n", "y">>}

Scalars ==
    {VS(s) : s \in Strings}
    \cup {VU(123), VI(0 - 12), VF("finite", FALSE, 125), VF("finite", TRUE, 0),
          VF("nan", FALSE, 0)}

Nested ==
    {VO(<<>>), VA(<<>>, FALSE, <<",">>),
     VO(<<Field(<<"s">>, VS(<<"a">>))>>),
     VA(<<VI(1), VE, VI(2)>>, FALSE, <<"|">>),
     VA(<<VU(1), VU(30), VU(89), VU(12)>>, TRUE, <<",">>),
     VA(<<>>, TRUE, <<",">>),
     VA(<<VU(1), VI(2)>>, TRUE, <<",">>)}

\* The tag of the field at position k.
Tags == <<<<"o">>, <<"s">>, <<"x">>, <<"u">>>>

Objects ==
    {VO([k \in 1..n |-> Field(Tags[k], vs[k])]) :
        n \in 0..MaxWidth, vs \in [1..MaxWidth -> Scalars \cup Nested]}

Arrays ==
    {VA([k \in 1..n |-> vs[k]], FALSE, <<",">>) :
        n \in 0..MaxWidth, vs \in [1..MaxWidth -> Scalars \cup Nested \cup {VE}]}

OutIdle ==
    /\ out_value = VE
    /\ out_text = <<>>
    /\ out_pc = "idle"
    /\ out_calls = <<>>

OutInit ==
    /\ out_value \in Objects \cup Arrays
    /\ out_text = <<>>
    /\ out_pc = "start"
    /\ out_calls = <<>>

WriteJson ==
    /\ out_pc = "start"
    /\ out_text' = write_json(out_value).text
    /\ out_pc' = IF write_json(out_value).ok THEN "json" ELSE "json_panic"
    /\ UNCHANGED <<out_value, out_calls>>
    /\ UNCHANGED notOut

WriteCsv ==
    /\ out_pc = "start"
    /\ out_text' = write_csv(out_value).text
    /\ out_pc' = IF write_csv(out_value).ok THEN "csv" ELSE "csv_panic"
    /\ UNCHANGED <<out_value, out_calls>>
    /\ UNCHANGED notOut

OutNext == WriteJson \/ WriteCsv

(***************************************************************************)
(* An Object built by push and prepend calls, then written.                *)
(***************************************************************************)
\* A prepend that adds the field at the end.
Object_prepend_at_end(o, tag, value) == VO(Append(o.fields, Field(tag, value)))

\* Object::push: self.fields.push(Field { tag, value })
Object_push(o, tag, value) == VO(Append(o.fields, Field(tag, value)))

\* Object::prepend: self.fields.insert(0, Field { tag, value })
Object_prepend(o, tag, value) == VO(<<Field(tag, value)>> \o o.fields)

CallTags == {<<"s">>, <<"u">>}

CallValues == {VU(123), VS(<<"a">>), VI(0 - 12)}

\* Object::new()
ObjInit ==
    /\ out_value = VO(<<>>)
    /\ out_text = <<>>
    /\ out_pc = "start"
    /\ out_calls = <<>>

Push(tag, value) ==
    /\ out_pc = "start"
    /\ Len(out_calls) < MaxCalls
    /\ out_value' = Object_push(out_value, tag, value)
    /\ out_calls' = Append(out_calls, [op |-> "push", tag |-> tag, value |-> value])
    /\ UNCHANGED <<out_text, out_pc>>
    /\ UNCHANGED notOut

Prepend(tag, value) ==
    /\ out_pc = "start"
    /\ Len(out_calls) < MaxCalls
    /\ out_value' = Object_prepend(out_value, tag, value)
    /\ out_calls' = Append(out_calls, [op |-> "prepend", tag |-> tag, value |-> value])
    /\ UNCHANGED <<out_text, out_pc>>
    /\ UNCHANGED notOut

ObjNext ==
    \/ \E tag \in CallTags, value \in CallValues : Push(tag, value)
    \/ \E tag \in CallTags, value \in CallValues : Prepend(tag, value)
    \/ WriteJson
    \/ WriteCsv

(***************************************************************************)
(* Specifications.                                                         *)
(***************************************************************************)
\* get_process_information on every enumeration and file content within the
\* bounds, with processes exiting at any point of the scan.
InitProcfs == ProcInit /\ AmdIdle /\ B45Idle /\ OutIdle /\ CmdIdle /\ CpuIdle /\ SlurmIdle /\ TimeIdle /\ StatIdle

SpecProcfs == InitProcfs /\ [][ProcNext]_vars

\* get_process_information on well-formed files, with every clock and
\* memory size of NumSystems.
InitProcfsNum == ProcNumInit /\ AmdIdle /\ B45Idle /\ OutIdle /\ CmdIdle /\ CpuIdle /\ SlurmIdle /\ TimeIdle /\ StatIdle

SpecProcfsNum == InitProcfsNum /\ [][ProcNext]_vars

\* get_amd_utilization on every --showpidgpus text and per-device table
\* within the bounds.
InitAmd == AmdInit /\ ProcIdle /\ B45Idle /\ OutIdle /\ CmdIdle /\ CpuIdle /\ SlurmIdle /\ TimeIdle /\ StatIdle

SpecAmd == InitAmd /\ [][AmdNext]_vars

\* encode_cpu_secs_base45el on every array within the bounds.
InitBase45 == B45Init /\ ProcIdle /\ AmdIdle /\ OutIdle /\ CmdIdle /\ CpuIdle /\ SlurmIdle /\ TimeIdle /\ StatIdle

SpecBase45 == InitBase45 /\ [][B45Next]_vars

\* write_json and write_csv on every tree within the bounds.
InitOutput == OutInit /\ ProcIdle /\ AmdIdle /\ B45Idle /\ CmdIdle /\ CpuIdle /\ SlurmIdle /\ TimeIdle /\ StatIdle

SpecOutput == InitOutput /\ [][OutNext]_vars

\* Every sequence of up to MaxCalls push and prepend calls on a new Object,
\* followed by write_json or write_csv.
InitObject == ObjInit /\ ProcIdle /\ AmdIdle /\ B45Idle /\ CmdIdle /\ CpuIdle /\ SlurmIdle /\ TimeIdle /\ StatIdle

SpecObject == InitObject /\ [][ObjNext]_vars

\* The rocm-smi invocations: every combination of answers of the four
\* invocations.
InitCmd == CmdInit /\ ProcIdle /\ B45Idle /\ OutIdle /\ CpuIdle /\ SlurmIdle /\ TimeIdle /\ StatIdle

SpecCmd == InitCmd /\ [][CmdNext]_vars

\* The cpuinfo parsers: files of up to MaxBlocks blocks, and the two-socket
\* file.
InitCpu == CpuInit /\ ProcIdle /\ AmdIdle /\ B45Idle /\ OutIdle /\ CmdIdle /\ SlurmIdle /\ TimeIdle /\ StatIdle

SpecCpu == InitCpu /\ [][CpuNext]_vars

\* The job manager: cgroup files of up to MaxCgroupLines lines, every way
\* the extraction command can end.
InitSlurm == SlurmInit /\ ProcIdle /\ AmdIdle /\ B45Idle /\ OutIdle /\ CmdIdle /\ CpuIdle /\ TimeIdle /\ StatIdle

SpecSlurm == InitSlurm /\ [][SlurmNext]_vars

\* The time stamp parser.
InitTime == TimeInit /\ ProcIdle /\ AmdIdle /\ B45Idle /\ OutIdle /\ CmdIdle /\ CpuIdle /\ SlurmIdle /\ StatIdle

SpecTime == InitTime /\ [][TimeNext]_vars

\* get_memory and get_process_information, on /proc/meminfo and /proc/stat.
InitStat == StatInit /\ ProcIdle /\ AmdIdle /\ B45Idle /\ OutIdle /\ CmdIdle /\ CpuIdle /\ SlurmIdle /\ TimeIdle

SpecStat == InitStat /\ [][StatNext]_vars


(***************************************************************************)
(* Properties of get_process_information.                                  *)
(***************************************************************************)
Entries == 1..Len(proc_pids)

KindAt(i) == fsys[proc_pids[i].pid].kind

\* The entries one of whose three files could not be read.
FailedIdx == {f[1] : f \in failed}

\* The pids the scan must return: entries all of whose files were read, of a
\* process that is not dead.
Survivors ==
    {proc_pids[i].pid : i \in {j \in Entries : j \notin FailedIdx /\ KindAt(j) \in GoodKinds}}

Defunct == <<" ", "<", "d", "e", "f", "u", "n", "c", "t", ">">>

\* C1: the returned map holds no pid whose stat state is 'X', and the
\* unparsable fields of a dead process never make the call fail: when every
\* entry that was read is a well-formed live process or a dead one, the call
\* returns Ok.
C1_NoDeadProcess ==
    pc = "done" =>
        /\ outcome = "Ok" =>
              \A p \in DOMAIN result : StateChar(fsys[p].kind) # "X"
        /\ (\A i \in Entries :
               i \in FailedIdx \/ KindAt(i) \in GoodKinds \cup DeadKinds)
           => outcome = "Ok"

\* A scan that met a readable dead process next to a sampled live one.
C1_Witness ==
    /\ pc = "done"
    /\ outcome = "Ok"
    /\ result # EmptyMap
    /\ \E i \in Entries :
          /\ KindAt(i) = "dead"
          /\ proc_pids[i].pid \notin gone
          /\ proc_pids[i].pid \notin DOMAIN result

\* C2: every zombie whose three files were read is in the returned map with
\* the command comm ++ " <defunct>", and every returned process in another
\* state has the comm text (between the first '(' and the last ')') unchanged.
C2_ZombieDefunct ==
    (pc = "done" /\ outcome = "Ok") =>
        /\ \A i \in Entries :
              (KindAt(i) = "zombie" /\ i \notin FailedIdx)
              => proc_pids[i].pid \in DOMAIN result
        /\ \A p \in DOMAIN result :
              result[p].command =
                 IF StateChar(fsys[p].kind) = "Z"
                 THEN CommText(fsys[p].kind) \o Defunct
                 ELSE CommText(fsys[p].kind)

\* A returned zombie next to a returned process whose comm holds ") X (".
C2_Witness ==
    /\ pc = "done"
    /\ outcome = "Ok"
    /\ \E p, q \in DOMAIN result :
          fsys[p].kind = "zombie" /\ fsys[q].kind = "tricky"

\* C3: in the returned map, has_children of p holds exactly when some process
\* of that same map has ppid = p.pid, whatever the enumeration (order,
\* repeated pids) and whichever enumerated pids were dropped.
C3_HasChildren ==
    (pc = "done" /\ outcome = "Ok") =>
        \A p \in DOMAIN result :
            result[p].has_children <=> \E q \in DOMAIN result : result[q].ppid = p

\* A returned process without children whose only child was enumerated and
\* dropped.
C3_Witness ==
    /\ pc = "done"
    /\ outcome = "Ok"
    /\ \E p \in DOMAIN result :
          /\ ~result[p].has_children
          /\ \E i \in Entries :
                /\ proc_pids[i].pid \notin DOMAIN result
                /\ fsys[proc_pids[i].pid].ppid = p

\* The record the files of pid p determine, given the set S of returned pids.
ExpectedFields(p, S) ==
    [pid |-> p, ppid |-> fsys[p].ppid, pgrp |-> 7, uid |-> 1000 + p,
     mem_size_kib |-> 316 * sys.kib_per_page,
     rssanon_kib |-> IF fsys[p].kind = "kthread" THEN 0 ELSE 123,
     has_children |-> \E q \in S : fsys[q].ppid = p]

ObservedFields(r) ==
    [pid |-> r.pid, ppid |-> r.ppid, pgrp |-> r.pgrp, uid |-> r.uid,
     mem_size_kib |-> r.mem_size_kib, rssanon_kib |-> r.rssanon_kib,
     has_children |-> r.has_children]

\* C4: an entry one of whose files cannot be read contributes no record and
\* never makes the call fail; the returned map is the one determined by the
\* remaining entries alone.
C4_VanishedDropped ==
    pc = "done" =>
        /\ (\A i \in Entries :
               i \in FailedIdx \/ KindAt(i) \in GoodKinds \cup DeadKinds)
           => outcome = "Ok"
        /\ outcome = "Ok" =>
              /\ DOMAIN result = Survivors
              /\ \A p \in DOMAIN result :
                    ObservedFields(result[p]) = ExpectedFields(p, Survivors)

\* A process that exited after its stat was read, next to a sampled one.
C4_Witness ==
    /\ pc = "done"
    /\ outcome = "Ok"
    /\ result # EmptyMap
    /\ \E f \in failed :
          /\ f[2] \in {"statm", "status"}
          /\ proc_pids[f[1]].pid \notin DOMAIN result
          /\ \E p \in DOMAIN result : fsys[proc_pids[f[1]].pid].ppid = p

\* The entries whose malformed file the scan has read.
ReachedBad ==
    {i \in 1..ix : KindAt(i) \in BadKinds \cup PanicKinds /\ i \notin FailedIdx}

DistinctUsers(per_pid_info, d) ==
    Cardinality({per_pid_info[k].pid :
                    k \in {j \in 1..Len(per_pid_info) :
                              \E x \in 1..Len(per_pid_info[j].devs) :
                                  per_pid_info[j].devs[x] = d}})

\* Equality of the fractions a.num / a.den and num / den.
FracEq(a, num, den) == a.num * den = num * a.den

\* C6: each emitted record for (pid, d) has gpu_pct = U[d].gpu / n_d and
\* mem_pct = U[d].mem / n_d, n_d the number of distinct pids using d.
C6_AsClaimed ==
    amd_pc = "Ok" =>
        \A k \in 1..Len(amd_out) :
            LET r == amd_out[k]
                n == DistinctUsers(amd_per_pid, r.device)
            IN  /\ FracEq(r.gpu_pct, amd_per_device[r.device + 1].gpu, n)
                /\ FracEq(r.mem_pct, amd_per_device[r.device + 1].mem, n)

\* The number of records of the vector for (pid, dev).
CountOut(pid, dev) ==
    Cardinality({k \in 1..Len(amd_out) :
                    amd_out[k].pid = pid /\ amd_out[k].device = dev})

\* The number of (pid, dev) entries of the pid map.
CountIn(pid, dev) ==
    Cardinality({k \in 1..Len(PidDevPairs(amd_per_pid)) :
                    PidDevPairs(amd_per_pid)[k] = [pid |-> pid, dev |-> dev]})

\* C7: the returned vector is ascending by (device, pid) and holds exactly
\* one record per (pid, device) entry of the pid map.
C7_SortedByDevicePid ==
    amd_pc = "Ok" =>
        /\ \A k \in 1..(Len(amd_out) - 1) :
              \/ amd_out[k].device < amd_out[k + 1].device
              \/ /\ amd_out[k].device = amd_out[k + 1].device
                 /\ amd_out[k].pid <= amd_out[k + 1].pid
        /\ Len(amd_out) = Len(PidDevPairs(amd_per_pid))
        /\ \A pid \in 0..2, dev \in 0..1 : CountOut(pid, dev) = CountIn(pid, dev)

\* A pid map that lists pids and devices in descending order.
C7_Witness ==
    /\ amd_pc = "Ok"
    /\ amd_per_pid = <<[pid |-> 2, devs |-> <<1, 0>>], [pid |-> 1, devs |-> <<0>>]>>
    /\ Len(amd_out) = 3


(***************************************************************************)
(* Properties of the base-45 packing.                                      *)
(***************************************************************************)
IsInitial(c) == \E i \in 1..BASE : INITIAL[i] = c

IsSubsequent(c) == \E i \in 1..BASE : SUBSEQUENT[i] = c

\* The digit a character of an alphabet stands for.
DigitOf(alphabet, c) == (CHOOSE i \in 1..BASE : alphabet[i] = c) - 1

\* The pieces of text from position i on, each starting at an INITIAL
\* character and running up to the next one.
RECURSIVE SplitBeforeInitial(_, _)
SplitBeforeInitial(text, i) ==
    IF i > Len(text) THEN <<>>
    ELSE LET later == {j \in (i + 1)..Len(text) : IsInitial(text[j])}
             next == IF later = {} THEN Len(text) + 1
                     ELSE CHOOSE j \in later : \A x \in later : j <= x
         IN  <<SubSeq(text, i, next - 1)>> \o SplitBeforeInitial(text, next)

\* A little-endian base-45 number in SUBSEQUENT digits.
RECURSIVE SubsequentValue(_)
SubsequentValue(ds) ==
    IF ds = <<>> THEN 0 ELSE DigitOf(SUBSEQUENT, ds[1]) + BASE * SubsequentValue(Tail(ds))

PieceValue(p) == DigitOf(INITIAL, p[1]) + BASE * SubsequentValue(Tail(p))

\* Text the decoder accepts: it starts with an INITIAL character and holds
\* only characters of the two alphabets.
Decodable(text) ==
    /\ text # <<>>
    /\ IsInitial(text[1])
    /\ \A i \in 1..Len(text) : IsInitial(text[i]) \/ IsSubsequent(text[i])

decode_base45(text) ==
    LET pieces == SplitBeforeInitial(text, 1)
    IN  [k \in 1..(Len(pieces) - 1) |-> PieceValue(pieces[1]) + PieceValue(pieces[k + 1])]

\* C8: for every non-empty array xs, the text encode_cpu_secs_base45el
\* returns decodes (split before each INITIAL character, little-endian
\* base-45 pieces, first piece added to each following one) to exactly xs.
C8_RoundTrip ==
    (b45_pc # "start" /\ cpu_secs # <<>>) =>
        /\ b45_pc = "Ok"
        /\ Decodable(encoded)
        /\ decode_base45(encoded) = cpu_secs

\* The array of test_encoding, whose text has a two-digit piece.
C8_Witness ==
    /\ b45_pc = "Ok"
    /\ cpu_secs = <<1, 30, 89, 12>>
    /\ encoded = <<")", "(", "t", "*", "1", "b">>


(***************************************************************************)
(* Properties of write_json: the grammar of RFC 8259, recognised on the    *)
(* text the writer received.  Each recogniser returns the position after   *)
(* the construct that starts at position i, or 0 when there is none.       *)
(***************************************************************************)
JsonWs == {" ", "\t", "\n", "\r"}

HexChars == {"0", "1", "2", "3", "4", "5", "6", "7", "8", "9",
             "a", "b", "c", "d", "e", "f", "A", "B", "C", "D", "E", "F"}

\* The first position from i on that holds no JSON whitespace.
SkipWs(s, i) ==
    CHOOSE j \in i..(Len(s) + 1) :
        /\ j = Len(s) + 1 \/ s[j] \notin JsonWs
        /\ \A x \in i..(j - 1) : s[x] \in JsonWs

\* The first position from i on that holds no digit.
DigitsEnd(s, i) ==
    CHOOSE j \in i..(Len(s) + 1) :
        /\ j = Len(s) + 1 \/ ~IsDigit(s[j])
        /\ \A x \in i..(j - 1) : IsDigit(s[x])

\* The characters of a string from position i on, up to the closing '"'.
RECURSIVE JsonChars(_, _)
JsonChars(s, i) ==
    IF i > Len(s) THEN 0
    ELSE IF s[i] = "\"" THEN i + 1
    ELSE IF s[i] = "\\"
    THEN IF i + 1 > Len(s) THEN 0
         ELSE IF s[i + 1] \in {"\"", "\\", "/", "b", "f", "n", "r", "t"}
         THEN JsonChars(s, i + 2)
         ELSE IF /\ s[i + 1] = "u"
                 /\ i + 5 <= Len(s)
                 /\ \A x \in (i + 2)..(i + 5) : s[x] \in HexChars
         THEN JsonChars(s, i + 6)
         ELSE 0
    ELSE IF s[i] \in {"\n", "\t", "\r"} THEN 0
    ELSE JsonChars(s, i + 1)

JsonString(s, i) == IF i <= Len(s) /\ s[i] = "\"" THEN JsonChars(s, i + 1) ELSE 0

\* exp = ("e" / "E") ["-" / "+"] 1*DIGIT, optional, from position i.
JsonExp(s, i) ==
    IF i <= Len(s) /\ s[i] \in {"e", "E"}
    THEN LET j == IF i + 1 <= Len(s) /\ s[i + 1] \in {"+", "-"} THEN i + 2 ELSE i + 1
         IN  IF DigitsEnd(s, j) > j THEN DigitsEnd(s, j) ELSE 0
    ELSE i

\* frac = "." 1*DIGIT, optional, from position i.
JsonFrac(s, i) ==
    IF i <= Len(s) /\ s[i] = "."
    THEN IF DigitsEnd(s, i + 1) > i + 1 THEN DigitsEnd(s, i + 1) ELSE 0
    ELSE i

\* number = ["-"] int [frac] [exp], int = "0" / (digit1-9 *DIGIT).
JsonNumber(s, i) ==
    LET j == IF i <= Len(s) /\ s[i] = "-" THEN i + 1 ELSE i
        k == IF j <= Len(s) /\ s[j] = "0" THEN j + 1
             ELSE IF DigitsEnd(s, j) > j THEN DigitsEnd(s, j) ELSE 0
    IN  IF k = 0 THEN 0
        ELSE IF JsonFrac(s, k) = 0 THEN 0
        ELSE JsonExp(s, JsonFrac(s, k))

JsonLiteral(s, i) ==
    IF SubSeq(s, i, i + 3) = <<"t", "r", "u", "e">> \/ SubSeq(s, i, i + 3) = <<"n", "u", "l", "l">> THEN i + 4
    ELSE IF SubSeq(s, i, i + 4) = <<"f", "a", "l", "s", "e">> THEN i + 5
    ELSE 0

RECURSIVE JsonValue(_, _)
RECURSIVE JsonElements(_, _)
RECURSIVE JsonMembers(_, _)

\* value *( "," value ) "]", from the first value at position i.
JsonElements(s, i) ==
    LET v == JsonValue(s, i)
        k == SkipWs(s, v)
    IN  IF v = 0 \/ k > Len(s) THEN 0
        ELSE IF s[k] = "," THEN JsonElements(s, SkipWs(s, k + 1))
        ELSE IF s[k] = "]" THEN k + 1
        ELSE 0

\* member *( "," member ) "}", from the first member at position i.
JsonMembers(s, i) ==
    LET n == JsonString(s, i)
        c == SkipWs(s, n)
        v == JsonValue(s, SkipWs(s, c + 1))
        k == SkipWs(s, v)
    IN  IF n = 0 \/ c > Len(s) THEN 0
        ELSE IF s[c] # ":" THEN 0
        ELSE IF v = 0 \/ k > Len(s) THEN 0
        ELSE IF s[k] = "," THEN JsonMembers(s, SkipWs(s, k + 1))
        ELSE IF s[k] = "}" THEN k + 1
        ELSE 0

JsonValue(s, i) ==
    IF i > Len(s) THEN 0
    ELSE IF s[i] = "[" THEN (IF SkipWs(s, i + 1) <= Len(s) /\ s[SkipWs(s, i + 1)] = "]"
                             THEN SkipWs(s, i + 1) + 1
                             ELSE JsonElements(s, SkipWs(s, i + 1)))
    ELSE IF s[i] = "{" THEN (IF SkipWs(s, i + 1) <= Len(s) /\ s[SkipWs(s, i + 1)] = "}"
                             THEN SkipWs(s, i + 1) + 1
                             ELSE JsonMembers(s, SkipWs(s, i + 1)))
    ELSE IF s[i] = "\"" THEN JsonString(s, i)
    ELSE IF s[i] = "-" \/ IsDigit(s[i]) THEN JsonNumber(s, i)
    ELSE JsonLiteral(s, i)

\* JSON-text = ws value ws
IsJsonText(s) ==
    /\ JsonValue(s, SkipWs(s, 1)) # 0
    /\ SkipWs(s, JsonValue(s, SkipWs(s, 1))) = Len(s) + 1

\* A JSON document followed by a single newline.
IsJsonLine(s) ==
    /\ Len(s) >= 2
    /\ s[Len(s)] = "\n"
    /\ s[Len(s) - 1] # "\n"
    /\ IsJsonText(SubSeq(s, 1, Len(s) - 1))

\* The trees of the claim: no Empty, finite Floats, base-45 Arrays that hold
\* Unsigned elements only and at least one.
RECURSIVE JsonTree(_)
JsonTree(v) ==
    CASE v.t = "E" -> FALSE
      [] v.t = "F" -> v.cls = "finite"
      [] v.t = "A" -> IF v.nonempty_base45
                      THEN /\ v.elements # <<>>
                           /\ \A k \in 1..Len(v.elements) : v.elements[k].t = "U"
                      ELSE \A k \in 1..Len(v.elements) : JsonTree(v.elements[k])
      [] v.t = "O" -> \A k \in 1..Len(v.fields) : JsonTree(v.fields[k].value)
      [] OTHER -> TRUE

RECURSIVE HasBase45(_)
HasBase45(v) ==
    CASE v.t = "A" -> \/ v.nonempty_base45
                      \/ \E k \in 1..Len(v.elements) : HasBase45(v.elements[k])
      [] v.t = "O" -> \E k \in 1..Len(v.fields) : HasBase45(v.fields[k].value)
      [] OTHER -> FALSE

\* C9: for every tree without Empty whose root is an Object or Array,
\* write_json emits a valid JSON document followed by a single newline.
C9_AsClaimed ==
    (out_pc \in {"json", "json_panic"} /\ JsonTree(out_value)) =>
        /\ out_pc = "json"
        /\ IsJsonLine(out_text)

\* What write_json does emit: the line is valid JSON exactly when the tree
\* holds no base-45 Array, whose text is written bare.
JsonValidUnlessBase45 ==
    (out_pc \in {"json", "json_panic"} /\ JsonTree(out_value)) =>
        /\ out_pc = "json"
        /\ IsJsonLine(out_text) <=> ~HasBase45(out_value)

(***************************************************************************)
(* Properties of format_csv_object and write_csv.                          *)
(***************************************************************************)
HasCommaOrQuote(s) == \E i \in 1..Len(s) : s[i] \in {",", "\""}

\* The text tag=value of a field.
FieldText(fld) == fld.tag \o <<"=">> \o format_csv_value(fld.value).text

\* text with every '"' doubled.
Doubled(text) ==
    LET Piece(k) == IF text[k] = "\"" THEN <<"\"", "\"">> ELSE <<text[k]>>
    IN  JoinWith([k \in 1..Len(text) |-> Piece(k)], <<>>)

\* A field as the claim renders it.
RenderedField(fld) ==
    IF HasCommaOrQuote(FieldText(fld))
    THEN <<"\"">> \o Doubled(FieldText(fld)) \o <<"\"">>
    ELSE FieldText(fld)

PlainScalar(v) ==
    /\ v.t \in {"S", "U", "I", "F"}
    /\ ~HasCommaOrQuote(format_csv_value(v).text)

\* C10: format_csv_object joins the fields in insertion order with ',', a
\* field being tag=value, wrapped in '"' with inner '"' doubled iff it holds
\* ',' or '"'; with plain scalar fields the line is tag=value,...,tag=value;
\* write_csv appends exactly one newline.
C10_CsvObject ==
    (out_pc = "csv" /\ out_value.t = "O") =>
        LET flds == out_value.fields
        IN  /\ out_text = format_csv_object(out_value).text \o <<"\n">>
            /\ out_text
                   = JoinWith([k \in 1..Len(flds) |-> RenderedField(flds[k])], <<",">>)
                     \o <<"\n">>
            /\ (\A k \in 1..Len(flds) : PlainScalar(flds[k].value)) =>
                   out_text
                       = JoinWith([k \in 1..Len(flds) |-> FieldText(flds[k])], <<",">>)
                         \o <<"\n">>

\* An Object with one field that needs the quotes and one that does not.
C10_Witness ==
    /\ out_pc = "csv"
    /\ out_value = VO(<<Field(<<"o">>, VS(<<"h", "e", "l", "l", "o", ",", " ", "\"", "s", "i", "r", "\"">>)), Field(<<"s">>, VU(123))>>)
    /\ out_text = <<"\"", "o", "=", "h", "e", "l", "l", "o", ",", " ", "\"", "\"", "s", "i", "r", "\"", "\"", "\"", ",", "s", "=", "1", "2", "3">> \o <<"\n">>


(***************************************************************************)
(* Properties of parse_showpidgpus_command.                                *)
(***************************************************************************)
\* The block under the trigger is the single line "No KFD PIDs ...".
NoKfdBlock(raw_text) ==
    /\ Len(find_block(raw_text, PidGpusTrigger)) = 1
    /\ StartsWith(find_block(raw_text, PidGpusTrigger)[1], <<"N", "o", " ", "K", "F", "D", " ", "P", "I", "D", "s">>)

\* C11: when the block under the trigger is the single line starting
\* "No KFD PIDs", the parser returns Ok with an empty pid map, not an error.
C11_NoKfdPidsIsEmptyOk ==
    (amd_pc # "start" /\ NoKfdBlock(amd_raw_text)) =>
        /\ amd_pc = "Ok"
        /\ amd_per_pid = <<>>
        /\ amd_out = <<>>

C11_Witness ==
    /\ amd_pc = "Ok"
    /\ NoKfdBlock(amd_raw_text)
    /\ amd_per_device # <<>>


(***************************************************************************)
(* Properties of the derived quantities of a sampled process.              *)
(***************************************************************************)
Max(a, b) == IF a > b THEN a ELSE b

\* now*ticks_per_sec - boot_time*ticks_per_sec - starttime of a pid.
ElapsedTicks(p) ==
    sys.now * sys.ticks_per_sec - sys.boot_time * sys.ticks_per_sec
    - Counters(fsys[p].kind).starttime

\* utime + stime of a pid.
BusyTicks(p) == Counters(fsys[p].kind).utime + Counters(fsys[p].kind).stime

\* C12: for every sampled process cpu_pct is (utime+stime) over
\* max(1, now*ticks - boot*ticks - starttime), rounded to a tenth: the
\* divisor is 1 when the clock is behind the start of the process, the value
\* is defined, not negative, and not capped at 100.
C12_CpuPctClamped ==
    \A p \in DOMAIN result :
        /\ result[p].cpu_pct = RoundDiv(BusyTicks(p) * 1000, Max(1, ElapsedTicks(p)))
        /\ result[p].cpu_pct >= 0
        /\ ElapsedTicks(p) < 0 => result[p].cpu_pct = BusyTicks(p) * 1000

\* A process sampled with the clock behind its start, and one that started
\* before the clock with more than 100%.
C12_Witness ==
    /\ outcome = "Ok"
    /\ DOMAIN result = {1, 2}
    /\ ElapsedTicks(1) < 0
    /\ ElapsedTicks(2) > 1
    /\ result[2].cpu_pct > 1000


\* statm field 1 of a pid times the page size in KiB.
RssKib(p) == Counters(fsys[p].kind).rss_pages * sys.kib_per_page

\* C13: for every sampled process mem_pct is rss_kib*1000/memtotal_kib
\* rounded, in tenths, and never above 99.9; mem_size_kib is statm field 5
\* times the page size, without a ceiling.
C13_MemPctCapped ==
    \A p \in DOMAIN result :
        /\ result[p].mem_pct = Min(999, RoundDiv(RssKib(p) * 1000, sys.memtotal_kib))
        /\ result[p].mem_pct <= 999
        /\ result[p].mem_size_kib = Counters(fsys[p].kind).data_pages * sys.kib_per_page

\* A process whose resident set exceeds the total memory.
C13_Witness ==
    /\ outcome = "Ok"
    /\ 1 \in DOMAIN result
    /\ RssKib(1) > sys.memtotal_kib
    /\ result[1].mem_pct = 999
    /\ result[1].mem_size_kib > sys.memtotal_kib


\* The characters the encoded form must avoid, and the one the alphabets
\* leave unused.
Forbidden == {",", "\"", "\\", " ", "="}

\* An alphabet of BASE distinct characters.
IsAlphabet(a) ==
    /\ Len(a) = BASE
    /\ \A i, j \in 1..Len(a) : a[i] = a[j] => i = j

AlphabetsWellFormed ==
    /\ IsAlphabet(INITIAL)
    /\ IsAlphabet(SUBSEQUENT)
    /\ \A i, j \in 1..BASE : INITIAL[i] # SUBSEQUENT[j]
    /\ \A i \in 1..BASE : INITIAL[i] \notin Forbidden /\ SUBSEQUENT[i] \notin Forbidden

\* C14: the text of a non-empty array of n elements holds only characters
\* of INITIAL and SUBSEQUENT, exactly n+1 of them from INITIAL, the first
\* one included, and none of ',', '"', '\', ' ', '='; each alphabet has 45
\* distinct characters and the two share none.
C14_EncodedAlphabet ==
    /\ AlphabetsWellFormed
    /\ (b45_pc # "start" /\ cpu_secs # <<>>) =>
          /\ b45_pc = "Ok"
          /\ \A i \in 1..Len(encoded) : IsInitial(encoded[i]) \/ IsSubsequent(encoded[i])
          /\ Cardinality({i \in 1..Len(encoded) : IsInitial(encoded[i])})
                 = Len(cpu_secs) + 1
          /\ IsInitial(encoded[1])
          /\ \A i \in 1..Len(encoded) : encoded[i] \notin Forbidden

\* An array whose elements take one, three and four digits.
C14_Witness ==
    /\ b45_pc = "Ok"
    /\ cpu_secs = <<2025, 0, 91125>>
    /\ Len(encoded) = 9


(***************************************************************************)
(* Properties of Object::push and Object::prepend.                         *)
(***************************************************************************)
\* The fields of the calls with the given op, in call order.
RECURSIVE CallsOf(_, _)
CallsOf(calls, op) ==
    IF calls = <<>> THEN <<>>
    ELSE (IF Head(calls).op = op THEN <<Field(Head(calls).tag, Head(calls).value)>>
          ELSE <<>>) \o CallsOf(Tail(calls), op)

Reverse(s) == [k \in 1..Len(s) |-> s[Len(s) + 1 - k]]

\* The prepended fields in reverse call order, then the pushed fields in
\* call order.
ClaimedOrder == Reverse(CallsOf(out_calls, "prepend")) \o CallsOf(out_calls, "push")

JsonMember(fld) ==
    <<"\"">> \o fld.tag \o <<"\"", ":">> \o write_json_int(fld.value).text

CsvMember(fld) == fld.tag \o <<"=">> \o format_csv_value(fld.value).text

\* C15: after any sequence of push and prepend calls the fields are the
\* prepended ones in reverse call order followed by the pushed ones in call
\* order, none dropped or merged, and write_json and write_csv emit them in
\* that order.
C15_FieldOrder ==
    /\ out_value.fields = ClaimedOrder
    /\ Len(out_value.fields) = Len(out_calls)
    /\ out_pc = "json" =>
          out_text = <<"{">>
                     \o JoinWith([k \in 1..Len(ClaimedOrder) |-> JsonMember(ClaimedOrder[k])],
                                 <<",">>)
                     \o <<"}", "\n">>
    /\ out_pc = "csv" =>
          out_text = JoinWith([k \in 1..Len(ClaimedOrder) |-> CsvMember(ClaimedOrder[k])],
                              <<",">>)
                     \o <<"\n">>

\* push, prepend, prepend with a repeated tag, written as JSON.
C15_Witness ==
    /\ out_pc = "json"
    /\ out_calls = <<[op |-> "push", tag |-> <<"s">>, value |-> VU(123)],
                     [op |-> "prepend", tag |-> <<"u">>, value |-> VS(<<"a">>)],
                     [op |-> "prepend", tag |-> <<"s">>, value |-> VI(0 - 12)]>>
    /\ out_text = <<"{", "\"", "s", "\"", ":", "-", "1", "2", ",", "\"", "u", "\"", ":", "\"", "a", "\"", ",", "\"", "s", "\"", ":", "1", "2", "3", "}">> \o <<"\n">>


(***************************************************************************)
(* Properties of the rocm-smi invocations.                                 *)
(***************************************************************************)
OtherError(i) == cmd_out[i].tag \in CmdErrors \ {"CouldNotStart"}

Made(i, op) == \E k \in 1..Len(amd_res[op].ran) : amd_res[op].ran[k] = i

EmptyOk(op) == amd_res[op].tag = "Ok" /\ amd_res[op].val = <<>>

\* What is claimed of one invocation, for the operation that makes it.
AsClaimedOf(i, op) ==
    Made(i, op) =>
        /\ cmd_out[i].tag = "CouldNotStart" => EmptyOk(op)
        /\ OtherError(i) => amd_res[op].tag = "Err"

\* get_amd_utilization returns Err when either of its components does.
UtilizationPropagates ==
    \A op \in {"get_raw_per_device_info", "get_raw_per_pid_info"} :
        amd_res[op].tag = "Err" => amd_pc = "Err"

LinesOf(lines, key) == {k \in 1..Len(lines) : StartsWith(lines[k], key)}

\* The values of the lines that start with a key.
ValuesOf(lines, key) == {i32_field(lines[k]).val : k \in LinesOf(lines, key)}

\* The value of the last line that starts with a key; 0 when there is none.
LastOf(lines, key) ==
    LET at == LinesOf(lines, key)
    IN  IF at = {} THEN 0
        ELSE i32_field(lines[CHOOSE k \in at : \A j \in at : j <= k]).val

AcceptedX86 == cpu_pc = "x86_64" /\ cpu_info.tag = "Ok"

\* C17: for every cpuinfo text get_cpu_info_x86_64 accepts, sockets is the
\* number of distinct 'physical id' values of the file, cores_per_socket is
\* the last 'cpu cores' and threads_per_core is the last 'siblings' divided
\* by it; the two-socket, four-core, two-thread file yields 2, 4 and 2.
C17_X86Topology ==
    /\ AcceptedX86 =>
          LET lines == SplitChar(cpuinfo[2], "\n")
              cpu_cores == LastOf(lines, <<"c", "p", "u", " ", "c", "o", "r", "e", "s">>)
          IN  /\ cpu_info.sockets = Cardinality(ValuesOf(lines, <<"p", "h", "y", "s", "i", "c", "a", "l", " ", "i", "d">>))
              /\ cpu_info.cores_per_socket = cpu_cores
              /\ cpu_info.threads_per_core
                    = TruncDiv(LastOf(lines, <<"s", "i", "b", "l", "i", "n", "g", "s">>), cpu_cores)
    /\ cpu_pc = "x86_64" /\ cpuinfo = <<TRUE, TwoSocketFile>> =>
          /\ cpu_info.tag = "Ok"
          /\ cpu_info.sockets = 2
          /\ cpu_info.cores_per_socket = 4
          /\ cpu_info.threads_per_core = 2

\* The two-socket file was accepted: sixteen 'physical id' lines, two values.
C17_Witness ==
    /\ AcceptedX86
    /\ cpuinfo = <<TRUE, TwoSocketFile>>
    /\ Cardinality(LinesOf(SplitChar(cpuinfo[2], "\n"), <<"p", "h", "y", "s", "i", "c", "a", "l", " ", "i", "d">>)) = 16
    /\ cpu_info.sockets = 2


\* A cpuinfo text from which sockets, cores_per_socket or threads_per_core
\* cannot be derived as a positive number by the x86_64 rules.
UnderivableX86(lines) ==
    LET siblings == LastOf(lines, <<"s", "i", "b", "l", "i", "n", "g", "s">>)
        cpu_cores == LastOf(lines, <<"c", "p", "u", " ", "c", "o", "r", "e", "s">>)
    IN  \/ LinesOf(lines, <<"p", "r", "o", "c", "e", "s", "s", "o", "r">>) = {}
        \/ LinesOf(lines, <<"p", "h", "y", "s", "i", "c", "a", "l", " ", "i", "d">>) = {}
        \/ siblings <= 0
        \/ cpu_cores <= 0
        \/ siblings < cpu_cores
        \/ \E v \in ValuesOf(lines, <<"p", "h", "y", "s", "i", "c", "a", "l", " ", "i", "d">>) : v < 0

\* The same by the aarch64 rules: no processor index.
UnderivableAarch64(lines) == LinesOf(lines, <<"p", "r", "o", "c", "e", "s", "s", "o", "r">>) = {}

\* C18 as stated: an Ok result of either parser has sockets,
\* cores_per_socket and threads_per_core >= 1 and a non-empty cores, and a
\* text from which they cannot be derived as positive numbers yields Err.
C18_AsClaimed ==
    /\ cpu_pc \in {"x86_64", "aarch64"} /\ cpu_info.tag = "Ok" =>
          /\ cpu_info.sockets >= 1
          /\ cpu_info.cores_per_socket >= 1
          /\ cpu_info.threads_per_core >= 1
          /\ cpu_info.cores # <<>>
    /\ cpu_pc = "x86_64" /\ cpuinfo[1] /\ UnderivableX86(SplitChar(cpuinfo[2], "\n")) =>
          cpu_info.tag = "Err"
    /\ cpu_pc = "aarch64" /\ cpuinfo[1] /\ UnderivableAarch64(SplitChar(cpuinfo[2], "\n")) =>
          cpu_info.tag = "Err"


(***************************************************************************)
(* Properties of SlurmJobManager.  The fragments of the cgroup file are    *)
(* described by their positions, without the scan of the pipeline.         *)
(***************************************************************************)
\* A 'job_<id>/' fragment of line l has its id at position p: "job_" before
\* it, an id of at least one character, a '/' after it.
FragmentAt(l, p) ==
    /\ p > Len(JobPrefix) /\ p < Len(l)
    /\ SubSeq(l, p - Len(JobPrefix), p - 1) = JobPrefix
    /\ l[p] # "/"
    /\ \E q \in (p + 1)..Len(l) : l[q] = "/"

\* The id of the fragment at p: up to the next '/'.
IdAt(l, p) ==
    SubSeq(l, p, (CHOOSE q \in (p + 1)..Len(l) :
                      l[q] = "/" /\ \A x \in (p + 1)..(q - 1) : l[x] # "/") - 1)

HasFragment(lines) ==
    \E k \in 1..Len(lines) : \E p \in 1..Len(lines[k]) : FragmentAt(lines[k], p)

\* The id of the first fragment: first line that has one, first position.
FirstFragment(lines) ==
    LET k == CHOOSE i \in 1..Len(lines) :
                 /\ \E p \in 1..Len(lines[i]) : FragmentAt(lines[i], p)
                 /\ \A j \in 1..(i - 1) :
                        \A p \in 1..Len(lines[j]) : ~FragmentAt(lines[j], p)
        p == CHOOSE x \in 1..Len(lines[k]) :
                 /\ FragmentAt(lines[k], x)
                 /\ \A y \in 1..(x - 1) : ~FragmentAt(lines[k], y)
    IN  IdAt(lines[k], p)

\* The digits of an id that is an unsigned integer, <<>> when it is none:
\* blanks around it and one '+' before it are allowed.
UnsignedDigits(id) ==
    LET t == Trim(id)
        body == IF t # <<>> /\ t[1] = "+" THEN Tail(t) ELSE t
    IN  IF \A i \in 1..Len(body) : IsDigit(body[i]) THEN body ELSE <<>>

\* C19: job_id_from_pid returns 0 when the cgroup file does not exist, when
\* the command fails, when the file has no 'job_<id>/' fragment and when
\* the id of the first fragment is not an unsigned integer; otherwise it
\* returns that integer.  need_process_tree returns false.
C19_JobIdOrZero ==
    /\ need_tree \in {"none", "false"}
    /\ job_id # -1 =>
          LET lines == Lines(cgroup[2])
              digits == UnsignedDigits(FirstFragment(lines))
          IN  IF \/ ~cgroup[1]
                 \/ slurm_cmd \in CmdErrors
                 \/ ~HasFragment(lines)
                 \/ digits = <<>>
              THEN job_id = 0
              ELSE job_id = DigitsValue(digits, 0)

\* The first fragment of the file is job_77/, on a line that has a second
\* fragment, after a line that has none; both operations have returned.
C19_Witness ==
    /\ job_id = 77
    /\ need_tree = "false"
    /\ Len(Lines(cgroup[2])) = 2
    /\ ~HasFragment(<<Lines(cgroup[2])[1]>>)


(***************************************************************************)
(* Properties of parse_date_and_time_no_tzo.                               *)
(***************************************************************************)
AllDigits(s) == s # <<>> /\ \A i \in 1..Len(s) : IsDigit(s[i])

\* The length of a month, February taken as 29.
DaysIn(mo) == CASE mo = 2 -> 29 [] mo \in {4, 6, 9, 11} -> 30 [] OTHER -> 31

InRange(yr, mo, dy, hr, mi, ss) ==
    /\ yr >= 1970 /\ yr <= 2100
    /\ mo >= 1 /\ mo <= 12
    /\ dy >= 1 /\ dy <= DaysIn(mo)
    /\ hr <= 23
    /\ mi <= 59
    /\ ss <= 60

TmOf(yr, mo, dy, hr, mi, ss) ==
    [tm_sec |-> ss, tm_min |-> mi, tm_hour |-> hr, tm_mday |-> dy,
     tm_mon |-> mo - 1, tm_year |-> yr - 1900, tm_wday |-> 0, tm_yday |-> 0,
     tm_isdst |-> 0, tm_gmtoff |-> 0]

\* The shape YYYY-MM-DDThh:mm or YYYY-MM-DDThh:mm:ss, digit for letter.
FixedShape(s) ==
    /\ Len(s) \in {16, 19}
    /\ \A i \in 1..Len(s) :
          CASE i \in {5, 8} -> s[i] = "-"
            [] i = 11 -> s[i] = "T"
            [] i \in {14, 17} -> s[i] = ":"
            [] OTHER -> IsDigit(s[i])

Digits(s, a, b) == DigitsValue(SubSeq(s, a, b), 0)

\* A text of the fixed shape, with its fields in range.
FixedAndInRange(s) ==
    /\ FixedShape(s)
    /\ InRange(Digits(s, 1, 4), Digits(s, 6, 7), Digits(s, 9, 10), Digits(s, 12, 13),
               Digits(s, 15, 16), IF Len(s) = 19 THEN Digits(s, 18, 19) ELSE 0)

Called == date_res.tag \in {"Ok", "Err"}

\* C20 as stated: Ok exactly for the texts of the shape YYYY-MM-DDThh:mm or
\* YYYY-MM-DDThh:mm:ss with fields in range, Err for every other text, and
\* on Ok the tm carries the fields.
C20_AsClaimed ==
    Called =>
        /\ date_res.tag = "Ok" <=> FixedAndInRange(date_text)
        /\ date_res.tag = "Ok" =>
              date_res.tm = TmOf(Digits(date_text, 1, 4), Digits(date_text, 6, 7),
                                 Digits(date_text, 9, 10), Digits(date_text, 12, 13),
                                 Digits(date_text, 15, 16),
                                 IF Len(date_text) = 19 THEN Digits(date_text, 18, 19)
                                 ELSE 0)

Count(s, c) == Cardinality({i \in 1..Len(s) : s[i] = c})

\* A field is a number: digits, of any count, after at most one '+'.
IsNumber(f) == AllDigits(IF f # <<>> /\ f[1] = "+" THEN Tail(f) ELSE f)

\* The value of a number; one of more than nine significant digits is
\* beyond every range and reads as the largest integer.
RECURSIVE Significant(_)
Significant(d) == IF Len(d) > 1 /\ d[1] = "0" THEN Significant(Tail(d)) ELSE d

NumberValue(f) ==
    LET d == Significant(IF f[1] = "+" THEN Tail(f) ELSE f)
    IN  IF Len(d) > 9 THEN MaxI32 ELSE DigitsValue(d, 0)

\* The fields of a text year-month-dayThour:minute[:second]: <<>> when the
\* text has not exactly one 'T', two '-' before it, one or two ':' after it
\* and a number in every field.
FieldsOf(s) ==
    LET date == SubSeq(s, 1, Find(s, "T") - 1)
        time == SubSeq(s, Find(s, "T") + 1, Len(s))
        fields == SplitChar(date, "-") \o SplitChar(time, ":")
    IN  IF /\ Count(s, "T") = 1
           /\ Count(date, "-") = 2
           /\ Count(time, ":") \in {1, 2}
           /\ \A k \in 1..Len(fields) : IsNumber(fields[k])
        THEN [k \in 1..6 |-> IF k <= Len(fields) THEN NumberValue(fields[k]) ELSE 0]
        ELSE <<>>

\* C20, amended: Ok exactly for the texts year-month-dayThour:minute or
\* year-month-dayThour:minute:second whose fields are numbers of any count
\* of digits, each after at most one '+', with the year in [1970, 2100], the
\* month in 1..12, the day between 1 and the length of the month (February
\* taken as 29), hour <= 23, minute <= 59, second <= 60; Err for every
\* other text, one with a time-zone offset included; on Ok the tm carries
\* year - 1900, month - 1, day, hour, minute and second (0 when omitted).
C20_AcceptedStamps ==
    Called =>
        LET f == FieldsOf(date_text)
        IN  /\ date_res.tag = "Ok" <=>
                  f # <<>> /\ InRange(f[1], f[2], f[3], f[4], f[5], f[6])
            /\ date_res.tag = "Ok" =>
                  date_res.tm = TmOf(f[1], f[2], f[3], f[4], f[5], f[6])

\* A stamp was accepted whose fields are not of the fixed widths: a month
\* of one digit, on its 29th, with no seconds.
C20_Witness ==
    /\ date_res.tag = "Ok"
    /\ ~FixedShape(date_text)
    /\ date_res.tm.tm_mon = 0
    /\ date_res.tm.tm_mday = 29
    /\ date_res.tm.tm_sec = 0


(***************************************************************************)
(* Properties of get_raw_per_device_info: bare rocm-smi as the fallback.    *)
(***************************************************************************)
\* What the second match of get_raw_per_device_info makes of the answer b
\* of bare rocm-smi: its text parsed by parse_text_concise_command, an
\* empty table when it could not start, Err on any other error.
BareOutcome(b, text) ==
    IF b.tag = "Ok" THEN [tag |-> text.tag, val |-> text.val]
    ELSE IF b.tag = "CouldNotStart" THEN [tag |-> "Ok", val |-> <<>>]
    ELSE [tag |-> "Err", val |-> <<>>]

\* The three cases of the claim, for the result r, the answer c of the CSV
\* invocation with its parse csv, and the outcome bare of the second match.
FallbackCases(r, c, csv, bare) ==
    /\ r.ran \in {<<ShowUseCsv>>, <<ShowUseCsv, BareRocmSmi>>}
    /\ c.tag = "Ok" /\ csv.tag = "Ok" =>
          r = Returned("Ok", csv.val, <<ShowUseCsv>>)
    /\ c.tag = "Ok" /\ csv.tag # "Ok" =>
          r = Returned(bare.tag, bare.val, <<ShowUseCsv, BareRocmSmi>>)
    /\ c.tag = "CouldNotStart" => r = Returned("Ok", <<>>, <<ShowUseCsv>>)

\* In the history of invocations, bare rocm-smi directly follows the CSV
\* invocation.
BareFollowsCsv ==
    \A k \in 1..Len(cmd_ran) :
        cmd_ran[k] = BareRocmSmi => k > 1 /\ cmd_ran[k - 1] = ShowUseCsv

\* C21: get_raw_per_device_info makes the bare rocm-smi invocation only
\* after the CSV invocation.  When the CSV invocation succeeds and its
\* output parses, bare rocm-smi is not run and the result is the CSV table;
\* when the CSV output does not parse, bare rocm-smi is run and the result
\* is its outcome (its text parsed by parse_text_concise_command); when the
\* CSV invocation could not start, bare rocm-smi is not run.
C21_BareIsFallback ==
    /\ amd_res # <<>> =>
          /\ BareFollowsCsv
          /\ amd_res["get_raw_per_device_info"] # NotCalled =>
                FallbackCases(amd_res["get_raw_per_device_info"],
                              cmd_out[ShowUseCsv],
                              parse_csv_concise_command(cmd_out[ShowUseCsv].text),
                              BareOutcome(cmd_out[BareRocmSmi],
                                  parse_text_concise_command(cmd_out[BareRocmSmi].text)))

\* The CSV invocation answered with a text that does not parse, bare
\* rocm-smi was run after it, and its table of two devices is the result.
C21_Witness ==
    /\ amd_res # <<>>
    /\ cmd_out[ShowUseCsv].tag = "Ok"
    /\ parse_csv_concise_command(cmd_out[ShowUseCsv].text).tag # "Ok"
    /\ amd_res["get_raw_per_device_info"].ran = <<ShowUseCsv, BareRocmSmi>>
    /\ amd_res["get_raw_per_device_info"].tag = "Ok"
    /\ Len(amd_res["get_raw_per_device_info"].val) = 2
    /\ cmd_ran # <<>> /\ cmd_ran[Len(cmd_ran)] # ShowUseCsv


(***************************************************************************)
(* Properties of get_cpu_info_x86_64: its cores, block by block.           *)
(***************************************************************************)
\* The block a 'processor' line at index k opens: the lines after it up to
\* the next 'processor' line or the end of the input.
BlockAfter(lines, at, k) ==
    {j \in (k + 1)..Len(lines) : \A p \in at : p > k => j < p}

\* The last line of a block that starts with a key; 0 when there is none.
LastIn(lines, block, key) ==
    LET hits == {j \in block : StartsWith(lines[j], key)}
    IN  IF hits = {} THEN 0 ELSE CHOOSE j \in hits : \A i \in hits : i <= j

\* The entry of cores for the 'processor' line at index k carries the
\* logical index of the line and the 'physical id' and 'model name' of its
\* block, where the block has them.
CarriesBlock(core, lines, at, k) ==
    LET name == LastIn(lines, BlockAfter(lines, at, k), <<"m", "o", "d", "e", "l", " ", "n", "a", "m", "e">>)
        id == LastIn(lines, BlockAfter(lines, at, k), <<"p", "h", "y", "s", "i", "c", "a", "l", " ", "i", "d">>)
    IN  /\ core.logical_index = i32_field(lines[k]).val
        /\ name # 0 => core.model_name = text_field(lines[name]).val
        /\ id # 0 => core.physical_index = i32_field(lines[id]).val

OnePerProcessorLine(cores, lines, at) ==
    /\ Len(cores) = Cardinality(at)
    /\ \A k \in at :
          CarriesBlock(cores[Cardinality({j \in at : j <= k})], lines, at, k)

\* C22 as stated: when get_cpu_info_x86_64 returns Ok, cores has exactly
\* one entry per 'processor' line, in file order, each with the logical
\* index, 'physical id' and 'model name' of the block the line opens.
C22_AsClaimed ==
    AcceptedX86 =>
        OnePerProcessorLine(cpu_info.cores, SplitChar(cpuinfo[2], "\n"),
            LinesOf(SplitChar(cpuinfo[2], "\n"), <<"p", "r", "o", "c", "e", "s", "s", "o", "r">>))


(***************************************************************************)
(* Properties of get_cpu_info_aarch64: its model name and topology.        *)
(***************************************************************************)
\* The value of the first line that starts with a key; 0 when there is none.
FirstOf(lines, key) ==
    LET at == LinesOf(lines, key)
    IN  IF at = {} THEN 0
        ELSE i32_field(lines[CHOOSE k \in at : \A j \in at : k <= j]).val

ArmModel(major, minor) == <<"A", "R", "M", "v">> \o FmtI(major) \o <<".">> \o FmtI(minor)

AcceptedAarch64 == cpu_pc = "aarch64" /\ cpu_info.tag = "Ok"

\* The result has one socket, one thread per core, as many cores as there
\* are distinct 'processor' indices, and the given model name on each core.
Aarch64Shape(info, lines, name) ==
    /\ info.sockets = 1
    /\ info.threads_per_core = 1
    /\ info.cores_per_socket = Cardinality(ValuesOf(lines, <<"p", "r", "o", "c", "e", "s", "s", "o", "r">>))
    /\ Len(info.cores) = info.cores_per_socket
    /\ \A k \in 1..Len(info.cores) : info.cores[k].model_name = name

\* C23 as stated: the model name is "ARMv{major}.{minor}" of the first
\* 'CPU architecture' and the first 'CPU variant' line, with one socket,
\* one thread per core and one core per distinct 'processor' index.
C23_AsClaimed ==
    AcceptedAarch64 =>
        Aarch64Shape(cpu_info, SplitChar(cpuinfo[2], "\n"),
            ArmModel(FirstOf(SplitChar(cpuinfo[2], "\n"), <<"C", "P", "U", " ", "a", "r", "c", "h", "i", "t", "e", "c", "t", "u", "r", "e">>),
                     FirstOf(SplitChar(cpuinfo[2], "\n"), <<"C", "P", "U", " ", "v", "a", "r", "i", "a", "n", "t">>)))

\* C23, amended: the model name is "ARMv{major}.{minor}" of the last 'CPU
\* architecture' and the last 'CPU variant' line of the file (0 for a kind
\* of line the file does not have), with one socket, one thread per core
\* and one core per distinct 'processor' index.
C23_LastSeenModel ==
    AcceptedAarch64 =>
        Aarch64Shape(cpu_info, SplitChar(cpuinfo[2], "\n"),
            ArmModel(LastOf(SplitChar(cpuinfo[2], "\n"), <<"C", "P", "U", " ", "a", "r", "c", "h", "i", "t", "e", "c", "t", "u", "r", "e">>),
                     LastOf(SplitChar(cpuinfo[2], "\n"), <<"C", "P", "U", " ", "v", "a", "r", "i", "a", "n", "t">>)))

\* Two blocks for processor 0, ARMv8 variant 3 first and ARMv9 variant 1
\* last: one core, named ARMv9.1.
C23_Witness ==
    /\ AcceptedAarch64
    /\ cpuinfo = <<TRUE, RepeatedProcessorFile>>
    /\ Cardinality(LinesOf(SplitChar(cpuinfo[2], "\n"), <<"p", "r", "o", "c", "e", "s", "s", "o", "r">>)) = 2
    /\ cpu_info.cores_per_socket = 1
    /\ cpu_info.cores[1].model_name = <<"A", "R", "M", "v", "9", ".", "1">>


(***************************************************************************)
(* Properties of the system data of get_process_information.  The lines    *)
(* of /proc/stat are described one by one, without the loop of the parser. *)
(***************************************************************************)
\* The first whitespace-separated field of a line; <<>> for a blank line.
TagOf(l) == IF SplitAsciiWhitespace(l) = <<>> THEN <<>> ELSE SplitAsciiWhitespace(l)[1]

\* The index of a 'cpu<i>' line: its tag is "cpu" followed by a number.  -1
\* for every other line.
CpuIndex(l) ==
    IF StartsWith(l, <<"c", "p", "u">>) /\ Len(TagOf(l)) > 3
    THEN ParseUsize(SubSeq(TagOf(l), 4, Len(TagOf(l))))
    ELSE -1

\* user + nice + system + irq + softirq of a line with those fields.
WorkTicks(l) ==
    LET f == SplitAsciiWhitespace(l)
    IN  ParseUsize(f[2]) + ParseUsize(f[3]) + ParseUsize(f[4])
        + ParseUsize(f[7]) + ParseUsize(f[8])

Largest(S) == CHOOSE x \in S : \A y \in S : y <= x

SampledStat == gpi_pc = "enumerate"

\* The length of per_cpu_secs, and its zeros.
SparseVector(secs, lines) ==
    LET indices == {CpuIndex(lines[k]) : k \in 1..Len(lines)} \ {-1}
    IN  /\ Len(secs) = IF indices = {} THEN 0 ELSE Largest(indices) + 1
        /\ \A i \in 0..(Len(secs) - 1) : i \notin indices => secs[i + 1] = 0

\* The lines of the text in another order.
Reordered(lines, p) == FileOfLines([k \in 1..Len(lines) |-> lines[p[k]]])

OrderIndependent(lines) ==
    \A p \in Permutations(1..Len(lines)) :
        SystemData(clk_tck, <<TRUE, Reordered(lines, p)>>) = sys_data

\* What is claimed of an accepted text, line by line.
StatAsClaimed(data, lines) ==
    /\ SparseVector(data.per_cpu_secs, lines)
    /\ \A k \in 1..Len(lines) :
          /\ CpuIndex(lines[k]) # -1 =>
                data.per_cpu_secs[CpuIndex(lines[k]) + 1] = WorkTicks(lines[k]) \div clk_tck
          /\ TagOf(lines[k]) = <<"c", "p", "u">> =>
                data.cpu_total_secs = WorkTicks(lines[k]) \div clk_tck
    /\ OrderIndependent(lines)

\* C24 as stated: for every /proc/stat text the sampler accepts,
\* per_cpu_secs[i] is the sum of user, nice, system, irq and softirq of the
\* 'cpu<i>' line divided by ticks_per_sec, it is 0 for an index without a
\* line, the length is the largest index + 1, cpu_total_secs is the same
\* sum of the line tagged exactly 'cpu', and the result does not depend on
\* the order of the lines.
C24_AsClaimed ==
    SampledStat => StatAsClaimed(sys_data, Lines(stat_file[2]))

\* No CPU index, no "cpu " line and no btime line occurs twice.
NothingRepeated(lines) ==
    \A j, k \in 1..Len(lines) :
        j # k =>
            /\ CpuIndex(lines[j]) # -1 => CpuIndex(lines[j]) # CpuIndex(lines[k])
            /\ ~(StartsWith(lines[j], <<"c", "p", "u", " ">>) /\ StartsWith(lines[k], <<"c", "p", "u", " ">>))
            /\ ~(StartsWith(lines[j], <<"b", "t", "i", "m", "e", " ">>) /\ StartsWith(lines[k], <<"b", "t", "i", "m", "e", " ">>))

\* The last line of a kind decides.
LastLineDecides(data, lines) ==
    LET totals == {k \in 1..Len(lines) : StartsWith(lines[k], <<"c", "p", "u", " ">>)}
    IN  /\ SparseVector(data.per_cpu_secs, lines)
        /\ \A k \in 1..Len(lines) :
              (/\ CpuIndex(lines[k]) # -1
               /\ \A j \in (k + 1)..Len(lines) : CpuIndex(lines[j]) # CpuIndex(lines[k]))
              => data.per_cpu_secs[CpuIndex(lines[k]) + 1] = WorkTicks(lines[k]) \div clk_tck
        /\ data.cpu_total_secs
              = IF totals = {} THEN 0 ELSE WorkTicks(lines[Largest(totals)]) \div clk_tck
        /\ NothingRepeated(lines) => OrderIndependent(lines)

\* C24, amended: for every /proc/stat text the sampler accepts, the length
\* of per_cpu_secs is the largest CPU index + 1, per_cpu_secs[i] is 0 for an
\* index without a line and otherwise the sum of user, nice, system, irq
\* and softirq of the last 'cpu<i>' line divided by ticks_per_sec,
\* cpu_total_secs is that sum of the last line that starts with "cpu " (0
\* without one), and the result does not depend on the order of the lines
\* when no index, no "cpu " line and no btime line is repeated.
C24_PerCpuSecs ==
    SampledStat => LastLineDecides(sys_data, Lines(stat_file[2]))

\* Lines for cpu0 and cpu2 and none for cpu1, at 100 ticks per second: 2, 0
\* and 3 seconds.
C24_Witness ==
    /\ SampledStat
    /\ clk_tck = 100
    /\ sys_data.per_cpu_secs = <<2, 0, 3>>
    /\ \E k \in 1..Len(Lines(stat_file[2])) : CpuIndex(Lines(stat_file[2])[k]) = 2


(***************************************************************************)
(* Properties of the failures of get_process_information before its loop   *)
(* and of get_memory, described by the lines of the two files.             *)
(***************************************************************************)
\* A line of the 'cpu' family without one of the five summed counters, or
\* with one that is not a number.
CounterMissing(fields) ==
    Len(fields) < 8 \/ \E i \in {2, 3, 4, 7, 8} : ParseUsize(fields[i]) = -1

LacksCounter(l) == StartsWith(l, <<"c", "p", "u">>) /\ CounterMissing(SplitAsciiWhitespace(l))

\* The value of the last line of the text that starts with tag; 0 without
\* such a line.
LastValue(lines, tag) ==
    LET tagged == {k \in 1..Len(lines) : StartsWith(lines[k], tag)}
    IN  IF tagged = {} \/ Len(SplitAsciiWhitespace(lines[Largest(tagged)])) < 2 THEN 0
        ELSE ParseUsize(SplitAsciiWhitespace(lines[Largest(tagged)])[2])

\* The texts of /proc/stat from which the system data cannot be had.
StatLinesRejected(lines) ==
    \/ \E k \in 1..Len(lines) : LacksCounter(lines[k])
    \/ LastValue(lines, <<"b", "t", "i", "m", "e", " ">>) = 0

\* The cases in which the system data cannot be had.
StatRejected ==
    \/ clk_tck = 0
    \/ ~stat_file[1]
    \/ StatLinesRejected(Lines(stat_file[2]))

\* A MemTotal or MemAvailable line that is not "tag: <number> kB".
NotNumberAndUnit(fields) ==
    Len(fields) # 3 \/ fields[3] # <<"k", "B">> \/ ParseUsize(fields[2]) = -1

MalformedMemLine(l) ==
    /\ StartsWith(l, <<"M", "e", "m", "T", "o", "t", "a", "l", ":", " ">>) \/ StartsWith(l, <<"M", "e", "m", "A", "v", "a", "i", "l", "a", "b", "l", "e", ":", " ">>)
    /\ NotNumberAndUnit(SplitAsciiWhitespace(l))

\* The texts of /proc/meminfo from which the memory cannot be had.
MemLinesRejected(lines) ==
    \/ \E k \in 1..Len(lines) : MalformedMemLine(lines[k])
    \/ LastValue(lines, <<"M", "e", "m", "T", "o", "t", "a", "l", ":", " ">>) = 0

\* The cases in which the memory cannot be had from a file that was read.
MeminfoRejected == meminfo[1] /\ MemLinesRejected(Lines(meminfo[2]))

OnlyStatWasRead == \A k \in 1..Len(fs_reads) : fs_reads[k] = "stat"

\* C25: get_process_information returns Err, without enumerating the pids
\* and without reading a per-pid file, when CLK_TCK is 0, when /proc/stat
\* cannot be read, when a 'cpu' line lacks one of the counted fields or has
\* a non-numeric one, and when there is no 'btime' line or its value is 0;
\* get_memory returns Err when /proc/meminfo has no 'MemTotal' line, when
\* MemTotal is 0, and when a MemTotal or MemAvailable line is malformed.
C25_ErrorsBeforeThePids ==
    /\ (gpi_pc \notin {"idle", "start"} /\ StatRejected)
          => (gpi_pc = "Err" /\ sys_data.tag = "Err" /\ OnlyStatWasRead)
    /\ (memory.tag \notin {"idle", "none"} /\ MeminfoRejected) => memory.tag = "Err"

\* /proc/stat was read, one of its 'cpu' lines has too few fields, and the
\* call has returned Err with no other access to the file system.
C25_Witness ==
    /\ gpi_pc = "Err"
    /\ clk_tck = 100
    /\ stat_file[1]
    /\ \E k \in 1..Len(Lines(stat_file[2])) :
          Len(SplitAsciiWhitespace(Lines(stat_file[2])[k])) = 4
    /\ LastValue(Lines(stat_file[2]), <<"b", "t", "i", "m", "e", " ">>) # 0
    /\ fs_reads = <<"stat">>


(***************************************************************************)
(* Properties of parse_showpidgpus_command: the pairs of a block, read off *)
(* the lines of the text.                                                  *)
(***************************************************************************)
\* The lines of the text that are "PID <pid> is using <N> DRM device(s):".
PidLinesIn(lines) ==
    {k \in 1..Len(lines) : /\ Len(SplitAsciiWhitespace(lines[k])) >= 6
                           /\ PidLineTest(SplitAsciiWhitespace(lines[k])) = "yes"}

\* The k-th smallest element of a set of numbers.
RECURSIVE Nth(_, _)
Nth(S, k) ==
    IF k = 1 THEN CHOOSE x \in S : \A y \in S : x <= y
    ELSE Nth(S \ {CHOOSE x \in S : \A y \in S : x <= y}, k - 1)

\* A PID line for 0 devices that is followed by an empty line.
ZeroDevicePairs(lines) ==
    {k \in PidLinesIn(lines) : /\ SplitAsciiWhitespace(lines[k])[5] = <<"0">>
                               /\ k < Len(lines)
                               /\ lines[k + 1] = <<>>}

\* The text was parsed, and the lines between the heading, which is line 2,
\* and the closing line are PID lines and the lines after them, in pairs.
PairedBlock(lines) ==
    /\ amd_pc \notin {"idle", "start"}
    /\ Len(lines) % 2 = 1
    /\ \A k \in 3..(Len(lines) - 1) : k \in PidLinesIn(lines) <=> k % 2 = 1

\* One entry per PID line, in the order of the lines, with no device for
\* the PID lines for 0 devices.
EntryPerPidLine(lines, map) ==
    /\ amd_pc # "Err"
    /\ Len(map) = Cardinality(PidLinesIn(lines))
    /\ \A i \in 1..Len(map) :
          /\ map[i].pid = ParseUsizeOrDefault(SplitAsciiWhitespace(lines[Nth(PidLinesIn(lines), i)])[2])
          /\ Nth(PidLinesIn(lines), i) \in ZeroDevicePairs(lines) => map[i].devs = <<>>

\* C26 as stated: a line 'PID <pid> is using 0 DRM device(s):' followed by
\* an empty line is accepted: the result is Ok and holds (pid, []) for that
\* pid together with the entries of all other PID pairs of the block, in
\* block order.
C26_AsClaimed ==
    (PairedBlock(Lines(amd_raw_text)) /\ ZeroDevicePairs(Lines(amd_raw_text)) # {})
        => EntryPerPidLine(Lines(amd_raw_text), amd_per_pid)

\* C27 as stated: the vector parse_showpidgpus_command returns is a function
\* from pid to device list: no pid occurs in more than one entry.
C27_AsClaimed ==
    amd_pc \notin {"idle", "start"} =>
        \A i, j \in 1..Len(amd_per_pid) : i # j => amd_per_pid[i].pid # amd_per_pid[j].pid


(***************************************************************************)
(* Properties of extract_amd_information: its indexing and its shares.     *)
(***************************************************************************)
\* C28 as stated: get_amd_utilization and extract_amd_information complete
\* and return a vector, without an out-of-range access, for every per-device
\* table and every pid map the two parsers return as Ok, an empty table with
\* a non-empty pid map and a pid map that names a device index not below
\* the length of the table included.
C28_AsClaimed ==
    (amd_pc \notin {"idle", "start"} /\ amd_per_pid # <<>>) => amd_pc = "Ok"

\* a/b + c/d as one fraction.
AddFractions(x, y) == [num |-> x.num * y.den + y.num * x.den, den |-> x.den * y.den]

\* The sum of the fractions field of the records from k on, as one fraction.
RECURSIVE SumOf(_, _, _)
SumOf(records, field, k) ==
    IF k > Len(records) THEN [num |-> 0, den |-> 1]
    ELSE AddFractions(records[k][field], SumOf(records, field, k + 1))

\* The records of a device, in their order.
OnDevice(records, d) == SelectSeq(records, LAMBDA r : r.device = d)

\* The devices the pid map names.
DevicesOf(per_pid_info) ==
    UNION {{per_pid_info[i].devs[k] : k \in 1..Len(per_pid_info[i].devs)} :
              i \in 1..Len(per_pid_info)}

\* The shares of a device add up to what the table has for it.
AddsUpTo(sum, whole) == sum.num = whole * sum.den

\* C29: apportioning conserves the utilization of a device: when every
\* device index of the pid map is in range, for every device d the map names
\* the gpu_pct of the records with device d add up to U[d].gpu and their
\* mem_pct to U[d].mem, as exact fractions, and a device no pid uses has no
\* record.
C29_SharesAddUp ==
    amd_pc = "Ok" =>
        /\ \A d \in DevicesOf(amd_per_pid) :
              /\ AddsUpTo(SumOf(OnDevice(amd_out, d), "gpu_pct", 1), amd_per_device[d + 1].gpu)
              /\ AddsUpTo(SumOf(OnDevice(amd_out, d), "mem_pct", 1), amd_per_device[d + 1].mem)
        /\ \A k \in 1..Len(amd_out) : amd_out[k].device \in DevicesOf(amd_per_pid)

\* One pid uses device 0 twice and once device 1, another pid uses device 0
\* once: three shares of device 0, and the second device has a record too.
C29_Witness ==
    /\ amd_pc = "Ok"
    /\ Len(OnDevice(amd_out, 0)) = 3
    /\ OnDevice(amd_out, 0)[1].gpu_pct = [num |-> 99, den |-> 3]
    /\ \E k \in 1..Len(amd_out) : amd_out[k].device = 1
    /\ \E j, k \in 1..Len(amd_out) : amd_out[j].pid # amd_out[k].pid


(***************************************************************************)
(* Properties of UserTable: the table of get_process_information against   *)
(* the resolver behind it.                                                 *)
(***************************************************************************)
\* What system.user_by_uid gives for a uid, or the name made up without it.
ResolverName(uid) ==
    IF uid \in DOMAIN sys.users THEN sys.users[uid] ELSE <<"_", "u", "s", "e", "r", "_">> \o FmtU(uid)

====
